---- MODULE Spec2Model ----
(***************************************************************************)
(* Model of the JSON merging / provenance engine (JsonProcessor), written  *)
(* from src/src/JsonProcessor.ts and src/src/types.ts.                     *)
(*                                                                         *)
(* JSON values are tagged records:                                         *)
(*   scalars   [t, v]                 t in "undefined","null","number",    *)
(*                                      "string","boolean"                 *)
(*   sequences [t |-> "array", v |-> <<elements>>, ref]                    *)
(*   mappings  [t |-> "object", v |-> <<  <<key, value>>, ... >>, ref,     *)
(*              hasMeta, meta]                                             *)
(* A mapping keeps its keys in insertion order (Object.keys / for-in).     *)
(* ref names who created the node: "src" for a node of caller-supplied     *)
(* data, "own" for a node the engine created. hasMeta/meta model the       *)
(* non-enumerable GET_METADATA_SYMBOL property and the Map it closes over. *)
(*                                                                         *)
(* A property name is the sequence of its '.'-separated segments, so the   *)
(* name "a.b" is <<"a","b">>; a dotted path string is the sequence of its  *)
(* segments too. Building `${currentPath}.${key}` is then concatenation    *)
(* and lastIndexOf('.') takes the last segment, as the code does on        *)
(* strings. Segments are non-empty strings.                                *)
(***************************************************************************)
EXTENDS Integers, Sequences, FiniteSets, TLC

VARIABLES pc, options, sourceObjects, finalMergedData, metadata, call, ret

vars == <<pc, options, sourceObjects, finalMergedData, metadata, call, ret>>

\* ------------------------------------------------------------- bounds
\* Longest list of sources handed to mergeAllWithMetadata.
MaxSources == 3

\* ------------------------------------------------------------- values
Undefined == [t |-> "undefined", v |-> 0]

Null == [t |-> "null", v |-> 0]

Num(n) == [t |-> "number", v |-> n]

Str(s) == [t |-> "string", v |-> s]

NoMeta == [k \in {} |-> 0]

Arr(es, ref) == [t |-> "array", v |-> es, ref |-> ref]

Obj(ps, ref) == [t |-> "object", v |-> ps, ref |-> ref, hasMeta |-> FALSE, meta |-> NoMeta]

isArray(x) == x.t = "array"

\* lodash isObject: true of every non-null object, sequences included.
isObject(x) == x.t \in {"object", "array"}

hasOwnProperty(o, key) == \E i \in 1..Len(o.v) : o.v[i][1] = key

\* o[key]: undefined when the key is absent.
Get(o, key) ==
  IF hasOwnProperty(o, key)
  THEN o.v[CHOOSE i \in 1..Len(o.v) : o.v[i][1] = key][2]
  ELSE Undefined

\* o[key] = val: in place when the key exists, appended otherwise.
Put(o, key, val) ==
  IF hasOwnProperty(o, key)
  THEN [o EXCEPT !.v[CHOOSE i \in 1..Len(o.v) : o.v[i][1] = key] = <<key, val>>]
  ELSE [o EXCEPT !.v = Append(@, <<key, val>>)]

\* delete o[key]
Delete(o, key) ==
  LET keep(p) == p[1] # key
  IN [o EXCEPT !.v = SelectSeq(@, keep)]

\* Map.set / Map.delete on a Map<string, PathMetadata>.
MapSet(m, key, val) == [k \in DOMAIN m \cup {key} |-> IF k = key THEN val ELSE m[k]]

MapDelete(m, key) == [k \in DOMAIN m \ {key} |-> m[k]]

\* lodash cloneDeep: a new node for every mapping and sequence; own enumerable
\* properties only, so the non-enumerable metadata accessor is not carried over.
RECURSIVE cloneDeep(_)
cloneDeep(x) ==
  IF x.t = "object"
  THEN Obj([i \in 1..Len(x.v) |-> <<x.v[i][1], cloneDeep(x.v[i][2])>>], "own")
  ELSE IF x.t = "array"
  THEN Arr([i \in 1..Len(x.v) |-> cloneDeep(x.v[i])], "own")
  ELSE x

\* lodash isEqual: structural equality, blind to key order, to node identity and
\* to non-enumerable properties. Canon is the order-free form it compares.
RECURSIVE Canon(_)
Canon(x) ==
  IF x.t = "object"
  THEN [t |-> "object",
        v |-> [k \in {x.v[i][1] : i \in 1..Len(x.v)} |-> Canon(Get(x, k))]]
  ELSE IF x.t = "array"
  THEN [t |-> "array", v |-> [i \in 1..Len(x.v) |-> Canon(x.v[i])]]
  ELSE x

isEqual(a, b) == Canon(a) = Canon(b)

\* target.concat(x): a new sequence holding target's elements, then x's.
concat(target, x) == Arr(target.v \o x.v, "own")

\* options.arrayStrategy ?? 'replace'
arrayStrategyOf(opts) == IF opts.arrayStrategy = "undefined" THEN "replace" ELSE opts.arrayStrategy

\* ------------------------------------------------ value merge baseline
RECURSIVE mergeValues(_, _, _)
RECURSIVE mergeObjectKeys(_, _, _, _)
\* The key loop of _mergeObjects: result[key] = _mergeValues(result[key], obj2[key]).
mergeObjectKeys(result, obj2, i, opts) ==
  IF i > Len(obj2.v) THEN result
  ELSE LET key == obj2.v[i][1]
           val1 == Get(result, key)
           val2 == obj2.v[i][2]
       IN mergeObjectKeys(Put(result, key, mergeValues(val1, val2, opts)), obj2, i + 1, opts)

\* Slip: a shallow merge, every key of obj2 replaces the key of obj1.
mergeObjectsShallow(obj1, obj2, opts) ==
  LET RECURSIVE put(_, _)
      put(result, i) ==
        IF i > Len(obj2.v) THEN result
        ELSE put(Put(result, obj2.v[i][1], cloneDeep(obj2.v[i][2])), i + 1)
  IN put(cloneDeep(obj1), 1)

\* _mergeObjects
mergeObjects(obj1, obj2, opts) == mergeObjectKeys(cloneDeep(obj1), obj2, 1, opts)

\* _mergeArrays: 'concat' appends a clone of arr2, anything else replaces.
mergeArrays(arr1, arr2, opts) ==
  IF arrayStrategyOf(opts) = "concat" THEN concat(arr1, cloneDeep(arr2)) ELSE cloneDeep(arr2)

\* _mergeValues
mergeValues(val1, val2, opts) ==
  IF isArray(val1) /\ isArray(val2) THEN mergeArrays(val1, val2, opts)
  ELSE IF isObject(val1) /\ isObject(val2) /\ ~isArray(val1) /\ ~isArray(val2)
  THEN mergeObjects(val1, val2, opts)
  ELSE cloneDeep(val2)

\* merge(obj1, obj2, options)
merge(obj1, obj2, opts) == mergeValues(cloneDeep(obj1), obj2, opts)

\* objects.reduce(merge, {}): the accumulator after the elements from i on.
RECURSIVE reduceMerge(_, _, _, _)
reduceMerge(accumulator, objects, i, opts) ==
  IF i > Len(objects) THEN accumulator
  ELSE reduceMerge(merge(accumulator, objects[i], opts), objects, i + 1, opts)

\* Slip: reduce without an initial value, the first element is the accumulator.
mergeAllNoInitialValue(objects, opts) ==
  IF Len(objects) = 0 THEN Obj(<<>>, "own")
  ELSE reduceMerge(objects[1], objects, 2, opts)

\* mergeAll(objects, options)
mergeAll(objects, opts) ==
  IF Len(objects) = 0 THEN Obj(<<>>, "own")
  ELSE reduceMerge(Obj(<<>>, "own"), objects, 1, opts)

\* ------------------------------------------------ value diff baseline
\* [...Object.keys(obj1), ...Object.keys(obj2)] as a Set: obj1's keys in their
\* order, then the keys only obj2 has.
allKeysOf(obj1, obj2) ==
  LET keys1 == [i \in 1..Len(obj1.v) |-> obj1.v[i][1]]
      keys2 == [i \in 1..Len(obj2.v) |-> obj2.v[i][1]]
      isNew(k) == ~hasOwnProperty(obj1, k)
  IN keys1 \o SelectSeq(keys2, isNew)

\* _diffArrays: both strategies record a clone of arr2 when the sequences differ.
diffArrays(arr1, arr2, opts) ==
  IF arrayStrategyOf(opts) = "elements"
  THEN IF ~isEqual(arr1, arr2) THEN cloneDeep(arr2) ELSE Undefined
  ELSE IF ~isEqual(arr1, arr2) THEN cloneDeep(arr2) ELSE Undefined

RECURSIVE diffValues(_, _, _)
\* Slip: a key that only obj2 has is left out of the diff.
diffEntryNoAdded(obj1, obj2, key, opts) ==
  LET val1 == Get(obj1, key)
      val2 == Get(obj2, key)
  IN IF ~hasOwnProperty(obj1, key) THEN {}
     ELSE IF ~hasOwnProperty(obj2, key) THEN {Undefined}
     ELSE LET valueDiff == diffValues(val1, val2, opts)
          IN IF valueDiff.t # "undefined" THEN {valueDiff} ELSE {}

\* Slip: a key that only obj1 has is left out of the diff.
diffEntryNoRemoved(obj1, obj2, key, opts) ==
  LET val1 == Get(obj1, key)
      val2 == Get(obj2, key)
  IN IF ~hasOwnProperty(obj1, key) THEN {cloneDeep(val2)}
     ELSE IF ~hasOwnProperty(obj2, key) THEN {}
     ELSE LET valueDiff == diffValues(val1, val2, opts)
          IN IF valueDiff.t # "undefined" THEN {valueDiff} ELSE {}

\* The body of the key loop of _diffObjects: the value assigned to diff[key],
\* or nothing when the loop assigns none.
diffEntry(obj1, obj2, key, opts) ==
  LET val1 == Get(obj1, key)
      val2 == Get(obj2, key)
  IN IF ~hasOwnProperty(obj1, key) THEN {cloneDeep(val2)}
     ELSE IF ~hasOwnProperty(obj2, key) THEN {Undefined}
     ELSE LET valueDiff == diffValues(val1, val2, opts)
          IN IF valueDiff.t # "undefined" \/ ~isEqual(val1, val2)
             THEN IF /\ isObject(valueDiff) /\ ~isArray(valueDiff)
                     /\ Len(valueDiff.v) = 0 /\ ~isEqual(val1, val2)
                  THEN {cloneDeep(val2)}
                  ELSE IF valueDiff.t # "undefined" THEN {valueDiff}
                  ELSE IF ~isEqual(val1, val2) THEN {cloneDeep(val2)}
                  ELSE {}
             ELSE {}

\* The key loop of _diffObjects over allKeys.
RECURSIVE diffObjectKeys(_, _, _, _, _, _)
diffObjectKeys(diff, obj1, obj2, allKeys, i, opts) ==
  IF i > Len(allKeys) THEN diff
  ELSE LET key == allKeys[i]
           entry == diffEntry(obj1, obj2, key, opts)
       IN diffObjectKeys(IF entry = {} THEN diff ELSE Put(diff, key, CHOOSE e \in entry : TRUE),
                         obj1, obj2, allKeys, i + 1, opts)

\* _diffObjects
diffObjects(obj1, obj2, opts) ==
  diffObjectKeys(Obj(<<>>, "own"), obj1, obj2, allKeysOf(obj1, obj2), 1, opts)

\* _diffValues
diffValues(val1, val2, opts) ==
  IF isEqual(val1, val2) THEN Undefined
  ELSE IF isArray(val1) /\ isArray(val2) THEN diffArrays(val1, val2, opts)
  ELSE IF isObject(val1) /\ isObject(val2) /\ ~isArray(val1) /\ ~isArray(val2)
  THEN LET objDiff == diffObjects(val1, val2, opts)
       IN IF Len(objDiff.v) > 0 THEN objDiff ELSE Undefined
  ELSE cloneDeep(val2)

\* diff(obj1, obj2, options): _diffValues(...) ?? {}
diff(obj1, obj2, opts) ==
  LET d == diffValues(obj1, obj2, opts)
  IN IF d.t \in {"undefined", "null"} THEN Obj(<<>>, "own") ELSE d

\* The loop of diffAll: only its first round assigns accumulatedDiff.
RECURSIVE diffAllLoop(_, _, _, _)
diffAllLoop(accumulatedDiff, objects, i, opts) ==
  IF ~(i < Len(objects) - 1) THEN accumulatedDiff
  ELSE diffAllLoop(IF i = 0 THEN diff(objects[1], objects[Len(objects)], opts)
                   ELSE accumulatedDiff,
                   objects, i + 1, opts)

\* Slip: the diff of the first two entries instead of the first and the last.
diffAllFirstTwo(objects, opts) ==
  IF Len(objects) < 2 THEN Obj(<<>>, "own")
  ELSE diff(objects[1], objects[2], opts)

\* diffAll(objects, options)
diffAll(objects, opts) ==
  IF Len(objects) < 2 THEN Obj(<<>>, "own")
  ELSE diffAllLoop(Obj(<<>>, "own"), objects, 0, opts)

\* ------------------------------------------------ provenance merge engine
\* `${currentPath}.${key}` when currentPath is non-empty, else key.
propertyPathOf(currentPath, key) == IF currentPath # <<>> THEN currentPath \o key ELSE key

\* currentPath.includes('.') ? currentPath.substring(lastIndexOf('.') + 1) : currentPath
parentKeyOf(currentPath) ==
  IF Len(currentPath) > 1 THEN <<currentPath[Len(currentPath)]>> ELSE currentPath

\* Slip: the record carries the attribute name instead of the full path.
mergeValueKeyAsPath(value, sourceId, currentPath) ==
  [sourceId |-> sourceId, path |-> parentKeyOf(currentPath), value |-> cloneDeep(value)]

\* mergeValue(value) with key = null: the record written for currentPath.
mergeValue(value, sourceId, currentPath) ==
  [sourceId |-> sourceId, path |-> currentPath, value |-> cloneDeep(value)]

\* cloneDeep of a PathMetadata record.
cloneMeta(m) == [m EXCEPT !.value = cloneDeep(@)]

\* The lookup target[GET_METADATA_SYMBOL](key), as the set of records it yields.
getMetadata(o, key) ==
  IF o.t = "object" /\ o.hasMeta /\ key \in DOMAIN o.meta THEN {o.meta[key]} ELSE {}

\* Seeding of the new childMetadataMap from the target's accessor (lines 305-315).
RECURSIVE seedChildMetadata(_, _, _)
seedChildMetadata(targetObj, i, childMetadataMap) ==
  IF i > Len(targetObj.v) THEN childMetadataMap
  ELSE LET key == targetObj.v[i][1]
           found == getMetadata(targetObj, key)
       IN seedChildMetadata(targetObj, i + 1,
            IF found # {}
            THEN MapSet(childMetadataMap, key, cloneMeta(CHOOSE m \in found : TRUE))
            ELSE childMetadataMap)

\* resultObject and childMetadataMap before the source's keys are processed.
initResult(target) ==
  IF isObject(target) /\ ~isArray(target)
  THEN [obj |-> cloneDeep(target),
        map |-> IF target.hasMeta THEN seedChildMetadata(target, 1, NoMeta) ELSE NoMeta]
  ELSE [obj |-> Obj(<<>>, "own"), map |-> NoMeta]

\* Slip: the key is removed but its record stays in childMetadataMap.
removeKeyKeepMeta(acc, key) == [obj |-> Delete(acc.obj, key), map |-> acc.map]

\* The explicit removal branch of the key loop (lines 338-341).
removeKey(acc, key) == [obj |-> Delete(acc.obj, key), map |-> MapDelete(acc.map, key)]

\* Object.defineProperty(resultObject, GET_METADATA_SYMBOL, ...): the accessor
\* closes over childMetadataMap, so it answers from the map's final content.
defineAccessor(resultObject, childMetadataMap) ==
  [resultObject EXCEPT !.hasMeta = TRUE, !.meta = childMetadataMap]

\* Slip: an existing record is kept, so the first writer wins.
setParentMetaKeepFirst(parentChildMetadataMap, value, sourceId, currentPath) ==
  LET parentKey == parentKeyOf(currentPath)
  IN IF parentKey # <<>> /\ parentKey \notin DOMAIN parentChildMetadataMap
     THEN MapSet(parentChildMetadataMap, parentKey, mergeValue(value, sourceId, currentPath))
     ELSE parentChildMetadataMap

\* The write of the record for currentPath into the parent's map,
\* guarded by `if (parentKey)`.
setParentMeta(parentChildMetadataMap, value, sourceId, currentPath) ==
  LET parentKey == parentKeyOf(currentPath)
  IN IF parentKey # <<>>
     THEN MapSet(parentChildMetadataMap, parentKey, mergeValue(value, sourceId, currentPath))
     ELSE parentChildMetadataMap

\* Slip: the source's sequence is used as it is, without cloneDeep.
mergeArrayValueNoClone(target, source, opts) ==
  IF isArray(target) /\ arrayStrategyOf(opts) = "concat"
  THEN concat(target, source)
  ELSE source

\* Slip: a sequence is appended to a sequence whatever the strategy is.
mergeArrayValueAlwaysConcat(target, source, opts) ==
  IF isArray(target)
  THEN concat(target, cloneDeep(source))
  ELSE cloneDeep(source)

\* The sequence branch (lines 281-293).
mergeArrayValue(target, source, opts) ==
  IF isArray(target) /\ arrayStrategyOf(opts) = "concat"
  THEN concat(target, cloneDeep(source))
  ELSE cloneDeep(source)

\* _mergeRecursiveWithMetadata: returns [value, map], the returned value and the
\* parent's childMetadataMap as the call leaves it.
RECURSIVE mergeRecursiveWithMetadata(_, _, _, _, _, _)
RECURSIVE mergeSourceKeys(_, _, _, _, _, _)
\* Slip: a key of the source replaces the key of the target, without the
\* recursive merge of the two values.
mergeSourceKeysShallow(acc, source, i, sourceId, opts, currentPath) ==
  IF i > Len(source.v) THEN acc
  ELSE LET key == source.v[i][1]
           sourceValue == source.v[i][2]
           propertyPath == propertyPathOf(currentPath, key)
       IN IF sourceValue.t = "undefined"
          THEN mergeSourceKeys(removeKey(acc, key), source, i + 1, sourceId, opts, currentPath)
          ELSE mergeSourceKeys([obj |-> Put(acc.obj, key, cloneDeep(sourceValue)),
                                map |-> setParentMeta(acc.map, sourceValue, sourceId, propertyPath)],
                               source, i + 1, sourceId, opts, currentPath)

mergeSourceKeys(acc, source, i, sourceId, opts, currentPath) ==
  IF i > Len(source.v) THEN acc
  ELSE LET key == source.v[i][1]
           sourceValue == source.v[i][2]
           targetValue == Get(acc.obj, key)
           propertyPath == propertyPathOf(currentPath, key)
       IN IF sourceValue.t = "undefined"
          THEN mergeSourceKeys(removeKey(acc, key), source, i + 1, sourceId, opts, currentPath)
          ELSE LET r == mergeRecursiveWithMetadata(targetValue, sourceValue, sourceId, opts,
                                                   propertyPath, acc.map)
               IN mergeSourceKeys([obj |-> Put(acc.obj, key, r.value), map |-> r.map],
                                  source, i + 1, sourceId, opts, currentPath)

\* Slip: the sequence branch returns the merged sequence without writing the
\* record for it.
mergeRecursiveWithMetadataNoArrayRecord(target, source, sourceId, opts, currentPath, parentChildMetadataMap) ==
  IF source.t = "undefined"
  THEN [value |-> target,
        map |-> MapDelete(parentChildMetadataMap, parentKeyOf(currentPath))]
  ELSE IF isArray(source)
  THEN [value |-> mergeArrayValue(target, source, opts), map |-> parentChildMetadataMap]
  ELSE IF isObject(source)
  THEN LET acc == mergeSourceKeys(initResult(target), source, 1, sourceId, opts, currentPath)
           resultObject == defineAccessor(acc.obj, acc.map)
       IN [value |-> resultObject,
           map |-> setParentMeta(parentChildMetadataMap, resultObject, sourceId, currentPath)]
  ELSE LET primitiveValue == cloneDeep(source)
       IN [value |-> primitiveValue,
           map |-> setParentMeta(parentChildMetadataMap, primitiveValue, sourceId, currentPath)]

mergeRecursiveWithMetadata(target, source, sourceId, opts, currentPath, parentChildMetadataMap) ==
  IF source.t = "undefined"
  THEN [value |-> target,
        map |-> MapDelete(parentChildMetadataMap, parentKeyOf(currentPath))]
  ELSE IF isArray(source)
  THEN LET mergedArray == mergeArrayValue(target, source, opts)
       IN [value |-> mergedArray,
           map |-> setParentMeta(parentChildMetadataMap, mergedArray, sourceId, currentPath)]
  ELSE IF isObject(source)
  THEN LET acc == mergeSourceKeys(initResult(target), source, 1, sourceId, opts, currentPath)
           resultObject == defineAccessor(acc.obj, acc.map)
       IN [value |-> resultObject,
           map |-> setParentMeta(parentChildMetadataMap, resultObject, sourceId, currentPath)]
  ELSE LET primitiveValue == cloneDeep(source)
       IN [value |-> primitiveValue,
           map |-> setParentMeta(parentChildMetadataMap, primitiveValue, sourceId, currentPath)]

\* collectMetadata: the read-back pass over the merged tree (lines 237-250).
RECURSIVE collectMetadata(_, _)
RECURSIVE collectKeys(_, _, _)
collectKeys(obj, i, md) ==
  IF i > Len(obj.v) THEN md
  ELSE LET key == IF obj.t = "object" THEN obj.v[i][1] ELSE <<i - 1>>
           value == IF obj.t = "object" THEN obj.v[i][2] ELSE obj.v[i]
           found == getMetadata(obj, key)
           md1 == IF found # {}
                  THEN LET metadataForKey == CHOOSE m \in found : TRUE
                       IN MapSet(md, metadataForKey.path, metadataForKey)
                  ELSE md
       IN collectKeys(obj, i + 1, collectMetadata(value, md1))

collectMetadata(obj, md) ==
  IF obj.t \in {"object", "array"} THEN collectKeys(obj, 1, md) ELSE md

\* The loop of mergeAllWithMetadata over sourceObjects from position i on.
RECURSIVE mergeAllWithMetadataLoop(_, _, _, _, _)
mergeAllWithMetadataLoop(sources, i, merged, md, opts) ==
  IF i > Len(sources) THEN [mergedObject |-> merged, metadata |-> md]
  ELSE LET next == mergeRecursiveWithMetadata(merged, sources[i].data, sources[i].id, opts,
                                              <<>>, NoMeta).value
       IN mergeAllWithMetadataLoop(sources, i + 1, next, collectMetadata(next, md), opts)

\* mergeAllWithMetadata(sourceObjects, options)
mergeAllWithMetadata(sources, opts) ==
  IF Len(sources) = 0 THEN [mergedObject |-> Obj(<<>>, "own"), metadata |-> NoMeta]
  ELSE mergeAllWithMetadataLoop(sources, 1, Obj(<<>>, "own"), NoMeta, opts)

\* ------------------------------------------------ schema traversal engine
\* A schema is a JSON value too; its keywords are property names.
kProperties == <<"properties">>

kItems == <<"items">>

kAllOf == <<"allOf">>

kAnyOf == <<"anyOf">>

kOneOf == <<"oneOf">>

kNot == <<"not">>

kIf == <<"if">>

kThen == <<"then">>

kElse == <<"else">>

kDependentSchemas == <<"dependentSchemas">>

kAdditionalProperties == <<"additionalProperties">>

kPatternProperties == <<"patternProperties">>

\* The keys of schemaKeywordHandlers, in the order the constructor inserts them.
schemaKeywordHandlers ==
  << kProperties, kItems, kAllOf, kAnyOf, kOneOf, kNot, kIf, kThen, kElse,
     kDependentSchemas, kAdditionalProperties, kPatternProperties >>

\* The keys of dataKeywordHandlers, in the order the constructor inserts them.
dataKeywordHandlers ==
  << kProperties, kItems, kAllOf, kAnyOf, kOneOf, kNot, kIf, kThen, kElse,
     kDependentSchemas >>

Bool(b) == [t |-> "boolean", v |-> b]

\* String(index), as a property name.
StringOf(index) == << <<"0", "1", "2", "3", "4", "5", "6", "7">>[index + 1] >>

\* A defined propertyName of a traversal context.
Key(k) == [t |-> "key", v |-> k]

\* typeof x === 'object' && x !== null
typeofObject(x) == x.t \in {"object", "array"}

\* JavaScript truthiness of a value.
truthy(x) ==
  CASE x.t \in {"undefined", "null"} -> FALSE
    [] x.t = "boolean" -> x.v
    [] x.t = "number" -> x.v # 0
    [] x.t = "string" -> x.v # ""
    [] OTHER -> TRUE

\* Object.prototype.hasOwnProperty.call(x, key) for a mapping or one of the
\* index names of a sequence; false of a scalar.
hasOwn(x, key) ==
  CASE x.t = "object" -> hasOwnProperty(x, key)
    [] x.t = "array" -> \E i \in 1..Len(x.v) : key = StringOf(i - 1)
    [] OTHER -> FALSE

\* x[key] of a mapping, or of a sequence for an index name.
GetProp(x, key) ==
  CASE x.t = "object" -> Get(x, key)
    [] x.t = "array" /\ hasOwn(x, key) -> x.v[CHOOSE i \in 1..Len(x.v) : key = StringOf(i - 1)]
    [] OTHER -> Undefined

\* The names `for (key in x)` yields: the keys of a mapping in insertion order,
\* the index names of a sequence. (The characters of a string are never
\* mappings, so a traversal sees nothing behind them.)
forInKeys(x) ==
  CASE x.t = "object" -> [i \in 1..Len(x.v) |-> x.v[i][1]]
    [] x.t = "array" -> [i \in 1..Len(x.v) |-> StringOf(i - 1)]
    [] OTHER -> <<>>

\* The arguments of one recursive call a keyword handler makes.
SchemaCall(schemaNode, currentPath, propertyName, parentSchemaNode) ==
  [schemaNode |-> schemaNode, path |-> currentPath, propertyName |-> propertyName,
   parentSchemaNode |-> parentSchemaNode]

DataCall(schemaNode, dataValue, currentPath, propertyName, parentSchemaNode) ==
  [schemaNode |-> schemaNode, dataValue |-> dataValue, path |-> currentPath,
   propertyName |-> propertyName, parentSchemaNode |-> parentSchemaNode]

\* ---- keyword handlers (schema): the calls of `traverse` each makes, in order
\* Slip: the children of `properties` are visited without a propertyName.
handleSchemaPropertiesNoName(node, currentPath, parent) ==
  LET properties == Get(node, kProperties)
      keys == forInKeys(properties)
  IN [i \in 1..Len(keys) |->
        SchemaCall(GetProp(properties, keys[i]), Append(currentPath, keys[i]), Undefined, parent)]

\* _handleSchemaProperties
handleSchemaProperties(node, currentPath, parent) ==
  LET properties == Get(node, kProperties)
      keys == forInKeys(properties)
  IN IF truthy(properties)
     THEN [i \in 1..Len(keys) |->
             SchemaCall(GetProp(properties, keys[i]), Append(currentPath, keys[i]),
                        Key(keys[i]), parent)]
     ELSE <<>>

\* Slip: a single item schema is visited under the name of the first index.
handleSchemaItemsIndexed(node, currentPath, parent) ==
  LET items == Get(node, kItems)
  IN IF truthy(items)
     THEN IF isArray(items)
          THEN [i \in 1..Len(items.v) |->
                  SchemaCall(items.v[i], currentPath, Key(StringOf(i - 1)), parent)]
          ELSE << SchemaCall(items, currentPath, Key(StringOf(0)), parent) >>
     ELSE <<>>

\* _handleSchemaItems
handleSchemaItems(node, currentPath, parent) ==
  LET items == Get(node, kItems)
  IN IF truthy(items)
     THEN IF isArray(items)
          THEN [i \in 1..Len(items.v) |->
                  SchemaCall(items.v[i], currentPath, Key(StringOf(i - 1)), parent)]
          ELSE << SchemaCall(items, currentPath, Undefined, parent) >>
     ELSE <<>>

\* _handleSchemaCombiner(combiner)
handleSchemaCombiner(combiner, node, currentPath, parent) ==
  LET members == Get(node, combiner)
  IN IF isArray(members)
     THEN [i \in 1..Len(members.v) |-> SchemaCall(members.v[i], currentPath, Undefined, parent)]
     ELSE <<>>

\* _handleSchemaNot: typeof node.not === 'object' (null included)
handleSchemaNot(node, currentPath, parent) ==
  LET sub == Get(node, kNot)
  IN IF typeofObject(sub) \/ sub.t = "null"
     THEN << SchemaCall(sub, currentPath, Undefined, parent) >>
     ELSE <<>>

\* _handleSchemaConditional(keyword)
handleSchemaConditional(keyword, node, currentPath, parent) ==
  LET sub == Get(node, keyword)
  IN IF truthy(sub) /\ typeofObject(sub)
     THEN << SchemaCall(sub, currentPath, Undefined, parent) >>
     ELSE <<>>

\* _handleSchemaDependentSchemas
handleSchemaDependentSchemas(node, currentPath, parent) ==
  LET dependentSchemas == Get(node, kDependentSchemas)
      keys == forInKeys(dependentSchemas)
  IN IF truthy(dependentSchemas)
     THEN [i \in 1..Len(keys) |->
             SchemaCall(GetProp(dependentSchemas, keys[i]), currentPath, Undefined, parent)]
     ELSE <<>>

\* _handleSchemaAdditionalOrPatternProperties: one handler, registered for both
\* keywords, that expands both.
handleSchemaAdditionalOrPatternProperties(node, currentPath, parent) ==
  LET additionalProperties == Get(node, kAdditionalProperties)
      patternProperties == Get(node, kPatternProperties)
      keys == forInKeys(patternProperties)
  IN (IF typeofObject(additionalProperties) \/ additionalProperties.t = "null"
      THEN << SchemaCall(additionalProperties, currentPath, Undefined, parent) >>
      ELSE <<>>)
     \o
     (IF truthy(patternProperties)
      THEN [i \in 1..Len(keys) |->
              SchemaCall(GetProp(patternProperties, keys[i]), currentPath, Undefined, parent)]
      ELSE <<>>)

\* this.schemaKeywordHandlers[keyword](node, currentPath, callback, node, traverse)
schemaKeywordHandler(keyword, node, currentPath, parent) ==
  CASE keyword = kProperties -> handleSchemaProperties(node, currentPath, parent)
    [] keyword = kItems -> handleSchemaItems(node, currentPath, parent)
    [] keyword \in {kAllOf, kAnyOf, kOneOf} -> handleSchemaCombiner(keyword, node, currentPath, parent)
    [] keyword = kNot -> handleSchemaNot(node, currentPath, parent)
    [] keyword \in {kIf, kThen, kElse} -> handleSchemaConditional(keyword, node, currentPath, parent)
    [] keyword = kDependentSchemas -> handleSchemaDependentSchemas(node, currentPath, parent)
    [] OTHER -> handleSchemaAdditionalOrPatternProperties(node, currentPath, parent)

\* _traverseSchemaRecursive: the contexts handed to the callback, in call order.
\* depth is the nesting of the recursive call that made the visit.
RECURSIVE traverseSchemaRecursive(_, _, _, _, _)
RECURSIVE schemaCalls(_, _, _, _)
RECURSIVE schemaKeywords(_, _, _, _, _)
\* The calls a handler makes, run one after the other.
schemaCalls(calls, i, visits, depth) ==
  IF i > Len(calls) THEN visits
  ELSE schemaCalls(calls, i + 1,
         visits \o traverseSchemaRecursive(calls[i].schemaNode, calls[i].path,
                     calls[i].propertyName, calls[i].parentSchemaNode, depth),
         depth)

\* The loop over schemaKeywordHandlers.
schemaKeywords(node, currentPath, k, visits, depth) ==
  IF k > Len(schemaKeywordHandlers) THEN visits
  ELSE LET keyword == schemaKeywordHandlers[k]
       IN schemaKeywords(node, currentPath, k + 1,
            IF hasOwn(node, keyword)
            THEN schemaCalls(schemaKeywordHandler(keyword, node, currentPath, node), 1,
                             visits, depth + 1)
            ELSE visits,
            depth)

\* Slip: the callback is given a node after the keywords of the node have
\* been expanded.
traverseSchemaRecursivePostOrder(schemaNode, currentPath, propertyName, parentSchemaNode, depth) ==
  IF ~typeofObject(schemaNode) THEN <<>>
  ELSE LET context == [schemaNode |-> schemaNode, path |-> currentPath,
                       propertyName |-> propertyName,
                       parentSchemaNode |-> parentSchemaNode, depth |-> depth]
       IN schemaKeywords(schemaNode, currentPath, 1, <<>>, depth) \o <<context>>

traverseSchemaRecursive(schemaNode, currentPath, propertyName, parentSchemaNode, depth) ==
  IF ~typeofObject(schemaNode) THEN <<>>
  ELSE LET context == [schemaNode |-> schemaNode, path |-> currentPath,
                       propertyName |-> propertyName,
                       parentSchemaNode |-> parentSchemaNode, depth |-> depth]
       IN schemaKeywords(schemaNode, currentPath, 1, <<context>>, depth)

\* traverseSchema(schema, callback)
traverseSchema(schema) == traverseSchemaRecursive(schema, <<>>, Undefined, Undefined, 0)

\* ---- keyword handlers (data): the calls of `traverse` each makes, in order,
\* or the TypeError the handler raises before its first call
NoCalls == [calls |-> <<>>, error |-> FALSE]

Calls(cs) == [calls |-> cs, error |-> FALSE]

TypeError == [calls |-> <<>>, error |-> TRUE]

\* Slip: every keyword is taken to fit every data value.
isDataCompatibleAlways(keyword, node, dataValue) == TRUE

\* _isDataCompatible
isDataCompatible(keyword, node, dataValue) ==
  IF /\ keyword \in {kProperties, kDependentSchemas}
     /\ (~typeofObject(dataValue) \/ isArray(dataValue))
  THEN FALSE
  ELSE IF keyword = kItems /\ ~isArray(dataValue)
  THEN FALSE
  ELSE TRUE

\* Slip: a property whose key the data lacks is not visited.
handleDataPropertiesPresentOnly(node, dataValue, currentPath, parent) ==
  LET properties == Get(node, kProperties)
      present(k) == hasOwn(dataValue, k)
      keys == SelectSeq(forInKeys(properties), present)
  IN Calls([i \in 1..Len(keys) |->
              DataCall(GetProp(properties, keys[i]), GetProp(dataValue, keys[i]),
                       Append(currentPath, keys[i]), Key(keys[i]), parent)])

\* _handleDataProperties; dataValue?.[key] is undefined for a value without
\* that key, null and undefined included.
handleDataProperties(node, dataValue, currentPath, parent) ==
  LET properties == Get(node, kProperties)
      keys == forInKeys(properties)
  IN IF truthy(properties)
     THEN Calls([i \in 1..Len(keys) |->
                   DataCall(GetProp(properties, keys[i]), GetProp(dataValue, keys[i]),
                            Append(currentPath, keys[i]), Key(keys[i]), parent)])
     ELSE NoCalls

\* Slip: a tuple schema is expanded for every element it has, whatever the
\* length of the data.
handleDataItemsWholeTuple(node, dataValue, currentPath, parent) ==
  LET items == Get(node, kItems)
  IN IF isArray(items)
     THEN Calls([i \in 1..Len(items.v) |->
                   DataCall(items.v[i], GetProp(dataValue, StringOf(i - 1)), currentPath,
                            Key(StringOf(i - 1)), parent)])
     ELSE Calls([i \in 1..Len(dataValue.v) |->
                   DataCall(items, dataValue.v[i], currentPath, Key(StringOf(i - 1)), parent)])

\* _handleDataItems. On a value that is no sequence, dataValue.forEach is no
\* function, and dataValue.length is read from null or undefined, both
\* TypeErrors; the length of any other value without one compares false.
handleDataItems(node, dataValue, currentPath, parent) ==
  LET items == Get(node, kItems)
  IN IF truthy(items)
     THEN IF isArray(items)
          THEN IF dataValue.t \in {"undefined", "null"}
               THEN IF Len(items.v) > 0 THEN TypeError ELSE NoCalls
               ELSE IF ~isArray(dataValue) THEN NoCalls
               ELSE LET within(i) == i - 1 < Len(dataValue.v)
                        indices == SelectSeq([i \in 1..Len(items.v) |-> i], within)
                    IN Calls([j \in 1..Len(indices) |->
                                DataCall(items.v[indices[j]], dataValue.v[indices[j]],
                                         currentPath, Key(StringOf(indices[j] - 1)), parent)])
          ELSE IF ~isArray(dataValue) THEN TypeError
               ELSE Calls([i \in 1..Len(dataValue.v) |->
                             DataCall(items, dataValue.v[i], currentPath,
                                      Key(StringOf(i - 1)), parent)])
     ELSE NoCalls

\* Slip: the members of a combiner are visited without the data value.
handleDataCombinerNoData(combiner, node, dataValue, currentPath, parent) ==
  LET members == Get(node, combiner)
  IN IF isArray(members)
     THEN Calls([i \in 1..Len(members.v) |->
                   DataCall(members.v[i], Undefined, currentPath, Undefined, parent)])
     ELSE NoCalls

\* _handleDataCombiner(combiner)
handleDataCombiner(combiner, node, dataValue, currentPath, parent) ==
  LET members == Get(node, combiner)
  IN IF isArray(members)
     THEN Calls([i \in 1..Len(members.v) |->
                   DataCall(members.v[i], dataValue, currentPath, Undefined, parent)])
     ELSE NoCalls

\* _handleDataNot and _handleDataConditional(keyword): node[keyword] is truthy
\* and typeof 'object'.
handleDataConditional(keyword, node, dataValue, currentPath, parent) ==
  LET sub == Get(node, keyword)
  IN IF truthy(sub) /\ typeofObject(sub)
     THEN Calls(<< DataCall(sub, dataValue, currentPath, Undefined, parent) >>)
     ELSE NoCalls

\* Slip: a dependent schema is visited with the value under its key.
handleDataDependentSchemasKeyValue(node, dataValue, currentPath, parent) ==
  LET dependentSchemas == Get(node, kDependentSchemas)
      owned(k) == hasOwn(dataValue, k)
      keys == SelectSeq(forInKeys(dependentSchemas), owned)
  IN IF truthy(dependentSchemas)
     THEN IF dataValue.t \in {"undefined", "null"}
          THEN IF Len(forInKeys(dependentSchemas)) > 0 THEN TypeError ELSE NoCalls
          ELSE Calls([i \in 1..Len(keys) |->
                        DataCall(GetProp(dependentSchemas, keys[i]), GetProp(dataValue, keys[i]),
                                 currentPath, Undefined, parent)])
     ELSE NoCalls

\* _handleDataDependentSchemas; hasOwnProperty.call(dataValue, key) raises a
\* TypeError on null and undefined.
handleDataDependentSchemas(node, dataValue, currentPath, parent) ==
  LET dependentSchemas == Get(node, kDependentSchemas)
      owned(k) == hasOwn(dataValue, k)
      keys == SelectSeq(forInKeys(dependentSchemas), owned)
  IN IF truthy(dependentSchemas)
     THEN IF dataValue.t \in {"undefined", "null"}
          THEN IF Len(forInKeys(dependentSchemas)) > 0 THEN TypeError ELSE NoCalls
          ELSE Calls([i \in 1..Len(keys) |->
                        DataCall(GetProp(dependentSchemas, keys[i]), dataValue, currentPath,
                                 Undefined, parent)])
     ELSE NoCalls

\* this.dataKeywordHandlers[keyword](node, dataValue, currentPath, callback, node, traverse)
dataKeywordHandler(keyword, node, dataValue, currentPath, parent) ==
  CASE keyword = kProperties -> handleDataProperties(node, dataValue, currentPath, parent)
    [] keyword = kItems -> handleDataItems(node, dataValue, currentPath, parent)
    [] keyword \in {kAllOf, kAnyOf, kOneOf} ->
         handleDataCombiner(keyword, node, dataValue, currentPath, parent)
    [] keyword \in {kNot, kIf, kThen, kElse} ->
         handleDataConditional(keyword, node, dataValue, currentPath, parent)
    [] OTHER -> handleDataDependentSchemas(node, dataValue, currentPath, parent)

\* _traverseDataRecursive: the contexts handed to the callback, in call order,
\* and whether an error ended the traversal. depth is the nesting of the
\* recursive call that made the visit.
RECURSIVE traverseDataRecursive(_, _, _, _, _, _)
RECURSIVE dataCalls(_, _, _, _)
RECURSIVE dataKeywords(_, _, _, _, _, _)
\* The calls a handler makes, run one after the other until one fails.
dataCalls(calls, i, acc, depth) ==
  IF i > Len(calls) \/ acc.error THEN acc
  ELSE LET r == traverseDataRecursive(calls[i].schemaNode, calls[i].dataValue, calls[i].path,
                  calls[i].propertyName, calls[i].parentSchemaNode, depth)
       IN dataCalls(calls, i + 1,
                    [visits |-> acc.visits \o r.visits, error |-> r.error], depth)

\* The loop over dataKeywordHandlers.
dataKeywords(node, dataValue, currentPath, k, acc, depth) ==
  IF k > Len(dataKeywordHandlers) \/ acc.error THEN acc
  ELSE LET keyword == dataKeywordHandlers[k]
       IN dataKeywords(node, dataValue, currentPath, k + 1,
            IF hasOwn(node, keyword) /\ isDataCompatible(keyword, node, dataValue)
            THEN LET h == dataKeywordHandler(keyword, node, dataValue, currentPath, node)
                 IN IF h.error THEN [acc EXCEPT !.error = TRUE]
                    ELSE dataCalls(h.calls, 1, acc, depth + 1)
            ELSE acc,
            depth)

\* Slip: the callback is called before the schema node is tested.
traverseDataRecursiveVisitFirst(schemaNode, dataValue, currentPath, propertyName, parentSchemaNode, depth) ==
  LET context == [schemaNode |-> schemaNode, dataValue |-> dataValue,
                  path |-> currentPath, propertyName |-> propertyName,
                  parentSchemaNode |-> parentSchemaNode, depth |-> depth]
  IN IF ~typeofObject(schemaNode) THEN [visits |-> <<context>>, error |-> FALSE]
     ELSE dataKeywords(schemaNode, dataValue, currentPath, 1,
                       [visits |-> <<context>>, error |-> FALSE], depth)

traverseDataRecursive(schemaNode, dataValue, currentPath, propertyName, parentSchemaNode, depth) ==
  IF ~typeofObject(schemaNode) THEN [visits |-> <<>>, error |-> FALSE]
  ELSE LET context == [schemaNode |-> schemaNode, dataValue |-> dataValue,
                       path |-> currentPath, propertyName |-> propertyName,
                       parentSchemaNode |-> parentSchemaNode, depth |-> depth]
       IN dataKeywords(schemaNode, dataValue, currentPath, 1,
                       [visits |-> <<context>>, error |-> FALSE], depth)

\* traverseData(schema, data, callback)
traverseData(schema, data) == traverseDataRecursive(schema, data, <<>>, Undefined, Undefined, 0)

\* ------------------------------------------------ inputs of the provenance engine
srcObj(ps) == Obj(ps, "src")

srcArr(es) == Arr(es, "src")

ka == <<"a">>

kb == <<"b">>

kc == <<"c">>

kx == <<"x">>

\* The property name "a.b".
kab == <<"a", "b">>

\* The documents a source may carry.
\* {a: 1}
docA1 == srcObj(<< <<ka, Num(1)>> >>)

\* {a: {b: 1}}
docAB1 == srcObj(<< <<ka, srcObj(<< <<kb, Num(1)>> >>)>> >>)

\* {a: {c: 2}}
docAC2 == srcObj(<< <<ka, srcObj(<< <<kc, Num(2)>> >>)>> >>)

\* {a: undefined}
docDelA == srcObj(<< <<ka, Undefined>> >>)

\* {a: {b: undefined}}
docDelAB == srcObj(<< <<ka, srcObj(<< <<kb, Undefined>> >>)>> >>)

\* {a: null}
docNullA == srcObj(<< <<ka, Null>> >>)

\* {x: 1}
docX1 == srcObj(<< <<kx, Num(1)>> >>)

\* {x: 2, a: {b: {c: 3}}}
docDeep == srcObj(<< <<kx, Num(2)>>, <<ka, srcObj(<< <<kb, srcObj(<< <<kc, Num(3)>> >>)>> >>)>> >>)

\* {a: [1]}
docSeq1 == srcObj(<< <<ka, srcArr(<<Num(1)>>)>> >>)

\* {a: [{b: 1}]}
docSeq == srcObj(<< <<ka, srcArr(<<srcObj(<< <<kb, Num(1)>> >>)>>)>> >>)

\* {"a.b": null}
docDotted == srcObj(<< <<kab, Null>> >>)

\* Scalars, nested mappings, the absence sentinel at both levels, null,
\* sequences (one with a mapping inside), a name holding a '.', and the
\* documents that are no mapping: a scalar, a sequence, undefined.
SourceData ==
  { docA1, docAB1, docAC2, docDelA, docDelAB, docNullA, docX1, docDeep, docSeq1, docSeq,
    docDotted, Num(7), srcArr(<<Num(1)>>), Undefined }

\* Source ids need not be unique: a source carries a fresh id or the first one.
SourceIds(n) == {"s1", <<"s1", "s2", "s3", "s4", "s5">>[n]}

MergeOptionsSet == {[arrayStrategy |-> "undefined"], [arrayStrategy |-> "concat"]}

\* No call of the baseline API has been made.
NoCall == [op |-> "none", objects |-> <<>>, options |-> [arrayStrategy |-> "undefined"]]

\* ------------------------------------------------ mergeAllWithMetadata
Init ==
  /\ pc = "loop"
  /\ options \in MergeOptionsSet
  /\ sourceObjects = <<>>
  /\ finalMergedData = Obj(<<>>, "own")
  /\ metadata = NoMeta
  /\ call = NoCall
  /\ ret = Undefined

\* One iteration of the loop over sourceObjects: the merge of the next source
\* and the read-back pass that follows it.
mergeAllWithMetadataPass(sourceObject) ==
  /\ pc = "loop"
  /\ Len(sourceObjects) < MaxSources
  /\ LET merged == mergeRecursiveWithMetadata(finalMergedData, sourceObject.data,
                     sourceObject.id, options, <<>>, NoMeta).value
     IN /\ finalMergedData' = merged
        /\ metadata' = collectMetadata(merged, metadata)
  /\ sourceObjects' = Append(sourceObjects, sourceObject)
  /\ UNCHANGED <<pc, options, call, ret>>

\* return { mergedObject: finalMergedData, metadata }
mergeAllWithMetadataReturn ==
  /\ pc = "loop"
  /\ pc' = "done"
  /\ UNCHANGED <<options, sourceObjects, finalMergedData, metadata, call, ret>>

Next ==
  \/ \E id \in SourceIds(Len(sourceObjects) + 1), data \in SourceData :
       mergeAllWithMetadataPass([id |-> id, data |-> data])
  \/ mergeAllWithMetadataReturn

Spec == Init /\ [][Next]_vars

\* ------------------------------------------------ vocabulary of the claims
\* <<path, value>> for every attribute reached through mappings only.
RECURSIVE PathValues(_, _)
PathValues(x, prefix) ==
  IF x.t = "object"
  THEN UNION { {<<prefix \o x.v[i][1], x.v[i][2]>>}
               \cup PathValues(x.v[i][2], prefix \o x.v[i][1]) : i \in 1..Len(x.v) }
  ELSE {}

PathsOf(x) == {pv[1] : pv \in PathValues(x, <<>>)}

\* The paths a document writes: those it reaches through mappings with a value
\* other than the absence sentinel (a mapping counts as written when the
\* document holds a mapping there, whatever it holds inside).
WrittenPaths(data) == {pv[1] : pv \in {q \in PathValues(data, <<>>) : q[2].t # "undefined"}}

\* The paths a document removes: those where it holds the absence sentinel.
DeletedPaths(data) == {pv[1] : pv \in {q \in PathValues(data, <<>>) : q[2].t = "undefined"}}

NullPaths(data) == {pv[1] : pv \in {q \in PathValues(data, <<>>) : q[2].t = "null"}}

\* Every property name of a value, at any depth.
RECURSIVE KeysIn(_)
KeysIn(x) ==
  IF x.t = "object"
  THEN UNION { {x.v[i][1]} \cup KeysIn(x.v[i][2]) : i \in 1..Len(x.v) }
  ELSE IF x.t = "array"
  THEN UNION { KeysIn(x.v[i]) : i \in 1..Len(x.v) }
  ELSE {}

\* No property name of any source holds a '.'.
DotFree == \A i \in 1..Len(sourceObjects) : \A k \in KeysIn(sourceObjects[i].data) : Len(k) = 1

AllMappings == \A i \in 1..Len(sourceObjects) : sourceObjects[i].data.t = "object"

\* The sources, by position, that wrote path p.
WritersOf(p) == {i \in 1..Len(sourceObjects) : p \in WrittenPaths(sourceObjects[i].data)}

\* The id of the last source that wrote p (no id when nobody did).
LastWriterIds(p) ==
  {sourceObjects[i].id : i \in {j \in WritersOf(p) : \A l \in WritersOf(p) : l <= j}}

\* The node found by following single-segment names from x.
RECURSIVE NodeAt(_, _)
NodeAt(x, path) ==
  IF path = <<>> THEN x
  ELSE IF x.t = "object" THEN NodeAt(Get(x, <<Head(path)>>), Tail(path))
  ELSE Undefined

Front(path) == SubSeq(path, 1, Len(path) - 1)

LastKey(path) == <<path[Len(path)]>>

\* Every mapping reached through mappings only, the root included.
RECURSIVE MappingNodes(_)
MappingNodes(x) ==
  IF x.t = "object"
  THEN {x} \cup UNION { MappingNodes(x.v[i][2]) : i \in 1..Len(x.v) }
  ELSE {}

\* The owners of the mutable nodes of a value.
RECURSIVE Refs(_)
Refs(x) ==
  IF x.t = "object"
  THEN {x.ref} \cup UNION { Refs(x.v[i][2]) : i \in 1..Len(x.v) }
       \cup UNION { Refs(x.meta[k].value) : k \in DOMAIN x.meta }
  ELSE IF x.t = "array"
  THEN {x.ref} \cup UNION { Refs(x.v[i]) : i \in 1..Len(x.v) }
  ELSE {}

Done == pc = "done"

\* ------------------------------------------------ C1
\* C1 (as claimed): after mergeAllWithMetadata over mapping sources, every
\* non-root path of the merged value has a global entry whose sourceId is the
\* id of the last source that wrote the path.
C1_LastWriterWins ==
  (Done /\ AllMappings) =>
    \A p \in PathsOf(finalMergedData) :
      p \in DOMAIN metadata /\ metadata[p].sourceId \in LastWriterIds(p)

\* C1 (amended): the same, for sources whose property names hold no '.'.
C1_LastWriterWinsDotFree ==
  (Done /\ AllMappings /\ DotFree) =>
    \A p \in PathsOf(finalMergedData) :
      p \in DOMAIN metadata /\ metadata[p].sourceId \in LastWriterIds(p)

\* The example S1={a:{b:1}}, S2={a:{c:2}}: a and a.c report S2, a.b reports S1.
C1_Witness ==
  /\ Done
  /\ Len(sourceObjects) = 2
  /\ sourceObjects[1] = [id |-> "s1", data |-> docAB1]
  /\ sourceObjects[2] = [id |-> "s2", data |-> docAC2]
  /\ metadata[<<"a">>].sourceId = "s2"
  /\ metadata[<<"a", "b">>].sourceId = "s1"
  /\ metadata[<<"a", "c">>].sourceId = "s2"

\* ------------------------------------------------ C2
\* C2: if a source wrote the root key x, a later source gave the absence
\* sentinel for x and no still-later source rewrote x, the merged value has no
\* key x and the global map has no entry for path x.
C2_DeletionPurgesProvenance ==
  (Done /\ AllMappings /\ DotFree) =>
    \A i \in 1..Len(sourceObjects) : \A j \in (i + 1)..Len(sourceObjects) :
      \A x \in {p \in WrittenPaths(sourceObjects[i].data) : Len(p) = 1} :
        (/\ x \in DeletedPaths(sourceObjects[j].data)
         /\ \A l \in (j + 1)..Len(sourceObjects) : x \notin WrittenPaths(sourceObjects[l].data))
        => (~hasOwnProperty(finalMergedData, x) /\ x \notin DOMAIN metadata)

\* ------------------------------------------------ C3
\* A leaf is an attribute whose value is no mapping, or a mapping without keys.
LeafPathValues(x) == {pv \in PathValues(x, <<>>) : pv[2].t # "object" \/ pv[2].v = <<>>}

\* C3 (as claimed): for every leaf path of the final merged value the global
\* map has an entry whose value deep-equals the value at that path.
C3_ProvenanceComplete ==
  Done =>
    \A pv \in LeafPathValues(finalMergedData) :
      pv[1] \in DOMAIN metadata /\ isEqual(metadata[pv[1]].value, pv[2])

\* C3 (amended): the same, for sources whose property names hold no '.'.
C3_ProvenanceCompleteDotFree ==
  (Done /\ DotFree) =>
    \A pv \in LeafPathValues(finalMergedData) :
      pv[1] \in DOMAIN metadata /\ isEqual(metadata[pv[1]].value, pv[2])

\* Three passes leave a root-level leaf, a nested leaf and an entry for each.
C3_Witness ==
  /\ Done
  /\ DotFree
  /\ Len(sourceObjects) = 3
  /\ \E pv \in LeafPathValues(finalMergedData) : Len(pv[1]) = 2 /\ pv[2].t = "number"
  /\ \E pv \in LeafPathValues(finalMergedData) : Len(pv[1]) = 1 /\ pv[2].t = "number"
  /\ \A pv \in LeafPathValues(finalMergedData) :
       pv[1] \in DOMAIN metadata /\ isEqual(metadata[pv[1]].value, pv[2])

\* ------------------------------------------------ C4
\* C4: at every nesting level the accessor of a merged mapping returns, for
\* every key present on it, the record (sourceId, path, value) written by the
\* last source that wrote that key, also when later sources wrote only other
\* keys of the mapping.
C4_LocalHistoryPreserved ==
  (Done /\ AllMappings /\ DotFree) =>
    \A p \in PathsOf(finalMergedData) :
      LET node == NodeAt(finalMergedData, Front(p))
      IN \E rec \in getMetadata(node, LastKey(p)) :
           /\ rec.sourceId \in LastWriterIds(p)
           /\ rec.path = p
           /\ isEqual(rec.value, Get(node, LastKey(p)))

\* ------------------------------------------------ C5
\* C5: after merging a non-empty list of mapping sources, every mapping of the
\* merged value reached through mappings (the root included) carries an
\* accessor, and the accessor answers only for keys of that mapping.
C5_EveryMappingHasAccessor ==
  (Done /\ AllMappings /\ DotFree /\ Len(sourceObjects) > 0) =>
    \A node \in MappingNodes(finalMergedData) :
      /\ node.hasMeta
      /\ \A k \in DOMAIN node.meta : hasOwnProperty(node, k)

\* ------------------------------------------------ C6
LastSource == sourceObjects[Len(sourceObjects)]

\* The removal and null clauses of C6 for the pass that has just ended.
RemovalHolds ==
  /\ \A p \in DeletedPaths(LastSource.data) :
       LET node == NodeAt(finalMergedData, Front(p))
       IN /\ node.t = "object"
          /\ ~hasOwnProperty(node, LastKey(p))
          /\ getMetadata(node, LastKey(p)) = {}
          /\ Len(p) > 1 =>
               \E rec \in getMetadata(NodeAt(finalMergedData, Front(Front(p))), LastKey(Front(p))) :
                 /\ rec.sourceId = LastSource.id
                 /\ rec.path = Front(p)
                 /\ isEqual(rec.value, node)
  /\ \A p \in NullPaths(LastSource.data) :
       LET node == NodeAt(finalMergedData, Front(p))
       IN /\ node.t = "object"
          /\ hasOwnProperty(node, LastKey(p))
          /\ Get(node, LastKey(p)) = Null
          /\ \E rec \in getMetadata(node, LastKey(p)) :
               rec.sourceId = LastSource.id /\ rec.value = Null

\* C6 (as claimed): after a pass whose source gives the absence sentinel for
\* key k of a mapping, the merged node has no key k, its accessor returns
\* nothing for k and the enclosing attribute's record names the deleting source
\* with the mapping without k as value; a null keeps the key, with value null
\* and a record naming the source.
C6_ExplicitRemoval ==
  (Len(sourceObjects) > 0 /\ LastSource.data.t = "object") => RemovalHolds

\* C6 (amended): the same, for sources whose property names hold no '.'.
C6_ExplicitRemovalDotFree ==
  (Len(sourceObjects) > 0 /\ LastSource.data.t = "object" /\ DotFree) => RemovalHolds

\* {a:{b:1}} then {a:{b:undefined}}: b is gone from a, a's record names s2.
C6_Witness ==
  /\ Len(sourceObjects) = 2
  /\ sourceObjects[1] = [id |-> "s1", data |-> docAB1]
  /\ sourceObjects[2] = [id |-> "s2", data |-> docDelAB]
  /\ ~hasOwnProperty(Get(finalMergedData, ka), kb)
  /\ getMetadata(finalMergedData, ka) # {}
  /\ \A rec \in getMetadata(finalMergedData, ka) : rec.sourceId = "s2" /\ rec.value.v = <<>>

\* ------------------------------------------------ C7
\* A later source gave the absence sentinel for p after an earlier one wrote it.
ExplicitlyDeleted(p) ==
  \E i \in 1..Len(sourceObjects) : \E j \in (i + 1)..Len(sourceObjects) :
    p \in WrittenPaths(sourceObjects[i].data) /\ p \in DeletedPaths(sourceObjects[j].data)

\* C7: the global map has an entry for every path of the merged value, and
\* every other entry is for a path removed by a later explicit deletion.
C7_GlobalMapExact ==
  (Done /\ AllMappings /\ DotFree) =>
    /\ PathsOf(finalMergedData) \subseteq DOMAIN metadata
    /\ \A p \in DOMAIN metadata \ PathsOf(finalMergedData) : ExplicitlyDeleted(p)

\* ------------------------------------------------ C8
\* C8: the merged value and the records of the global map hold no node of any
\* source's data: every mapping and sequence in them was created by the
\* engine. Every node a pass writes to (resultObject, by assignment, delete and
\* defineProperty) is a node of the tree the pass returns, so a pass writes to
\* no node of a source either.
C8_NoAliasing ==
  /\ Refs(finalMergedData) \subseteq {"own"}
  /\ \A p \in DOMAIN metadata : Refs(metadata[p].value) \subseteq {"own"}

\* Under concat, two sources with a mapping inside a sequence leave a sequence
\* of two mappings in the merged value.
C8_Witness ==
  /\ options.arrayStrategy = "concat"
  /\ Len(sourceObjects) >= 2
  /\ sourceObjects[Len(sourceObjects)].data = docSeq
  /\ Get(finalMergedData, ka).t = "array"
  /\ Len(Get(finalMergedData, ka).v) = 2
  /\ Get(finalMergedData, ka).v[1].t = "object"
  /\ Refs(sourceObjects[1].data) = {"src"}

\* ------------------------------------------------ baseline API: inputs and calls
\* Longest list handed to mergeAll.
MaxObjects == 3

\* JSON values handed to merge and mergeAll: scalars, null, sequences (one with
\* a mapping inside), the empty mapping, flat and nested mappings that overlap.
JsonValues ==
  { Num(1), Null, Str("s"),
    srcArr(<<Num(1)>>),
    srcArr(<<Num(2), srcObj(<< <<ka, Num(1)>> >>)>>),
    srcObj(<<>>),
    srcObj(<< <<ka, Num(1)>> >>),
    srcObj(<< <<ka, srcObj(<< <<kb, Num(1)>> >>)>>, <<kx, srcArr(<<Num(1)>>)>> >>),
    srcObj(<< <<kx, srcArr(<<Num(2)>>)>>, <<ka, srcObj(<< <<kc, Num(2)>> >>)>> >>),
    srcObj(<< <<ka, srcArr(<<Num(3)>>)>>, <<kb, Num(2)>> >>) }

\* More mappings for diff: flat ones that share keys, differ in one value, in
\* key order or in the keys they have, a null, and nested ones that overlap.
DiffValues ==
  JsonValues \cup
  { srcObj(<< <<ka, Num(1)>>, <<kb, Num(2)>> >>),
    srcObj(<< <<kb, Num(2)>>, <<ka, Num(1)>> >>),
    srcObj(<< <<ka, Num(2)>>, <<kb, Null>>, <<kx, srcArr(<<Num(1)>>)>> >>),
    srcObj(<< <<ka, srcObj(<< <<kb, Num(1)>>, <<kc, Num(2)>> >>)>>, <<kx, srcArr(<<Num(1)>>)>> >>),
    srcObj(<< <<ka, srcObj(<< <<kb, srcObj(<<>>)>> >>)>> >>) }

\* The values arrayStrategy may carry at run time: none, the strategies of
\* merge ('replace', 'concat') and those of diff ('replace', 'elements'). The
\* types give merge and diff two sets, so 'elements' is outside merge's set
\* and 'concat' outside diff's.
BaselineOptions ==
  {[arrayStrategy |-> "undefined"], [arrayStrategy |-> "replace"], [arrayStrategy |-> "concat"],
   [arrayStrategy |-> "elements"]}

\* The arguments of one call of the baseline API, drawn before the call.
InitMerge ==
  /\ pc = "api"
  /\ options = [arrayStrategy |-> "undefined"]
  /\ sourceObjects = <<>>
  /\ finalMergedData = Obj(<<>>, "own")
  /\ metadata = NoMeta
  /\ \/ \E objects \in [1..2 -> JsonValues], opts \in BaselineOptions :
          call = [op |-> "merge", objects |-> objects, options |-> opts]
     \/ \E n \in 0..MaxObjects : \E objects \in [1..n -> JsonValues], opts \in BaselineOptions :
          call = [op |-> "mergeAll", objects |-> objects, options |-> opts]
     \/ \E objects \in [1..2 -> DiffValues], opts \in BaselineOptions :
          call = [op |-> "diff", objects |-> objects, options |-> opts]
     \/ \E n \in 0..MaxObjects : \E objects \in [1..n -> JsonValues], opts \in BaselineOptions :
          call = [op |-> "diffAll", objects |-> objects, options |-> opts]
  /\ ret = Undefined

\* merge(obj1, obj2, options) returns.
CallMerge ==
  /\ pc = "api"
  /\ call.op = "merge"
  /\ pc' = "returned"
  /\ ret' = merge(call.objects[1], call.objects[2], call.options)
  /\ UNCHANGED <<options, sourceObjects, finalMergedData, metadata, call>>

\* mergeAll(objects, options) returns.
CallMergeAll ==
  /\ pc = "api"
  /\ call.op = "mergeAll"
  /\ pc' = "returned"
  /\ ret' = mergeAll(call.objects, call.options)
  /\ UNCHANGED <<options, sourceObjects, finalMergedData, metadata, call>>

\* diff(obj1, obj2, options) returns.
CallDiff ==
  /\ pc = "api"
  /\ call.op = "diff"
  /\ pc' = "returned"
  /\ ret' = diff(call.objects[1], call.objects[2], call.options)
  /\ UNCHANGED <<options, sourceObjects, finalMergedData, metadata, call>>

\* diffAll(objects, options) returns.
CallDiffAll ==
  /\ pc = "api"
  /\ call.op = "diffAll"
  /\ pc' = "returned"
  /\ ret' = diffAll(call.objects, call.options)
  /\ UNCHANGED <<options, sourceObjects, finalMergedData, metadata, call>>

NextMerge == CallMerge \/ CallMergeAll \/ CallDiff \/ CallDiffAll

SpecMerge == InitMerge /\ [][NextMerge]_vars

\* ------------------------------------------------ C9
\* The reference deep merge, on order-free values (see Canon): two sequences
\* give b's sequence, or a's elements followed by b's under concat; two
\* mappings give the union of the keys, merged per key, keys of one side kept;
\* anything else gives b.
RECURSIVE RefMerge(_, _, _)
RefMerge(a, b, strategy) ==
  IF a.t = "array" /\ b.t = "array"
  THEN IF strategy = "concat" THEN [t |-> "array", v |-> a.v \o b.v] ELSE b
  ELSE IF a.t = "object" /\ b.t = "object"
  THEN [t |-> "object",
        v |-> [k \in DOMAIN a.v \cup DOMAIN b.v |->
                 IF k \notin DOMAIN b.v THEN a.v[k]
                 ELSE IF k \notin DOMAIN a.v THEN b.v[k]
                 ELSE RefMerge(a.v[k], b.v[k], strategy)]]
  ELSE b

\* C9: merge(a, b, options) deep-equals the reference deep merge of a and b
\* under the strategy the options name (replace when they name none).
C9_MergeIsReferenceMerge ==
  (pc = "returned" /\ call.op = "merge") =>
    Canon(ret) = RefMerge(Canon(call.objects[1]), Canon(call.objects[2]),
                          IF call.options.arrayStrategy = "concat" THEN "concat" ELSE "replace")

\* Two nested mappings with a sequence on both sides, merged under concat.
C9_Witness ==
  /\ pc = "returned"
  /\ call.op = "merge"
  /\ call.options.arrayStrategy = "concat"
  /\ call.objects[1].t = "object" /\ call.objects[2].t = "object"
  /\ Get(ret, kx).t = "array" /\ Len(Get(ret, kx).v) = 2
  /\ Get(ret, ka).t = "object" /\ Len(Get(ret, ka).v) = 2

\* ------------------------------------------------ C10
\* The left-to-right fold of merge from an empty mapping, by structural
\* recursion on the list.
RECURSIVE FoldMerge(_, _)
FoldMerge(list, opts) ==
  IF list = <<>> THEN Obj(<<>>, "own")
  ELSE merge(FoldMerge(SubSeq(list, 1, Len(list) - 1), opts), list[Len(list)], opts)

\* C10: mergeAll(list) is the fold of merge from an empty mapping; the empty
\* list gives an empty mapping; a one-element list gives a value that
\* deep-equals the element and holds no node of it.
C10_MergeAllIsFold ==
  (pc = "returned" /\ call.op = "mergeAll") =>
    /\ isEqual(ret, FoldMerge(call.objects, call.options))
    /\ call.objects = <<>> => (ret.t = "object" /\ ret.v = <<>>)
    /\ Len(call.objects) = 1 =>
         (isEqual(ret, call.objects[1]) /\ Refs(ret) \subseteq {"own"})

\* mergeAll of a single nested mapping.
C10_Witness ==
  /\ pc = "returned"
  /\ call.op = "mergeAll"
  /\ Len(call.objects) = 1
  /\ call.objects[1].t = "object"
  /\ Refs(call.objects[1]) = {"src"}
  /\ Get(ret, ka).t = "object"

\* mergeAll of three mappings.
C10_WitnessFold ==
  /\ pc = "returned"
  /\ call.op = "mergeAll"
  /\ Len(call.objects) = 3
  /\ \A i \in 1..3 : call.objects[i].t = "object"
  /\ Len(ret.v) = 3

\* ------------------------------------------------ C11
\* A flat mapping: no value of it is a mapping.
Flat(x) == x.t = "object" /\ \A i \in 1..Len(x.v) : x.v[i][2].t # "object"

\* Every key of a is a key of b.
NoRemovedKeys(a, b) == \A i \in 1..Len(a.v) : hasOwnProperty(b, a.v[i][1])

NoOptions == [arrayStrategy |-> "undefined"]

\* C11: for flat mappings a and b such that every key of a is a key of b,
\* merge(a, diff(a, b)) deep-equals b.
C11_DiffMergeRoundTrip ==
  (/\ pc = "returned" /\ call.op = "diff"
   /\ Flat(call.objects[1]) /\ Flat(call.objects[2])
   /\ NoRemovedKeys(call.objects[1], call.objects[2]))
  => isEqual(merge(call.objects[1], ret, NoOptions), call.objects[2])

\* a = {a: 1}, b = {a: [3], b: 2}: the diff changes a and adds b.
C11_Witness ==
  /\ pc = "returned" /\ call.op = "diff"
  /\ Flat(call.objects[1]) /\ Flat(call.objects[2])
  /\ NoRemovedKeys(call.objects[1], call.objects[2])
  /\ Len(call.objects[1].v) = 1
  /\ hasOwnProperty(ret, ka) /\ hasOwnProperty(ret, kb)
  /\ Get(ret, ka).t = "array"
  /\ isEqual(merge(call.objects[1], ret, NoOptions), call.objects[2])

\* ------------------------------------------------ C12
\* The reference diff of two mappings, on order-free values (see Canon): an
\* entry for every key that only one has or whose values differ; b's value for
\* a key only b has, the absence sentinel for a key only a has, the reference
\* diff of two mappings that differ, b's value for anything else that differs.
RECURSIVE RefDiff(_, _)
RefDiff(a, b) ==
  [t |-> "object",
   v |-> [k \in {j \in DOMAIN a.v \cup DOMAIN b.v :
                   j \notin DOMAIN a.v \/ j \notin DOMAIN b.v \/ a.v[j] # b.v[j]} |->
            IF k \notin DOMAIN a.v THEN b.v[k]
            ELSE IF k \notin DOMAIN b.v THEN Undefined
            ELSE IF a.v[k].t = "object" /\ b.v[k].t = "object" THEN RefDiff(a.v[k], b.v[k])
            ELSE b.v[k]]]

\* No mapping inside an order-free value is empty unless b holds it at that key.
RECURSIVE NestedDiffsNonEmpty(_, _, _)
NestedDiffsNonEmpty(d, a, b) ==
  \A k \in DOMAIN d.v :
    (k \in DOMAIN a.v /\ k \in DOMAIN b.v /\ a.v[k].t = "object" /\ b.v[k].t = "object")
    => (DOMAIN d.v[k].v # {} /\ NestedDiffsNonEmpty(d.v[k], a.v[k], b.v[k]))

\* C12: diff(a, b) of two mappings has an entry for key k exactly when only
\* one of them has k or their values at k are not deeply equal; the entry is
\* b's value for a key only b has, the absence sentinel for a key only a has,
\* b's value for differing scalars, sequences and type mismatches, the
\* non-empty nested diff for differing mappings; equal inputs give {}.
C12_DiffEntries ==
  (pc = "returned" /\ call.op = "diff"
   /\ call.objects[1].t = "object" /\ call.objects[2].t = "object")
  => /\ Canon(ret) = RefDiff(Canon(call.objects[1]), Canon(call.objects[2]))
     /\ NestedDiffsNonEmpty(Canon(ret), Canon(call.objects[1]), Canon(call.objects[2]))
     /\ isEqual(call.objects[1], call.objects[2]) => (ret.t = "object" /\ ret.v = <<>>)

\* Two nested mappings: key a holds a nested diff that removes one key and adds
\* another, key x a sequence taken whole.
C12_Witness ==
  /\ pc = "returned" /\ call.op = "diff"
  /\ call.objects[1].t = "object" /\ call.objects[2].t = "object"
  /\ Get(ret, ka).t = "object"
  /\ hasOwnProperty(Get(ret, ka), kb) /\ Get(Get(ret, ka), kb).t = "undefined"
  /\ hasOwnProperty(Get(ret, ka), kc) /\ Get(Get(ret, ka), kc).t = "number"
  /\ Get(ret, kx).t = "array"

\* ------------------------------------------------ C13
\* C13: diffAll(list) equals diff(first, last) for a list of two or more
\* entries, whatever lies between, and is the empty mapping for a list of
\* fewer; so it is the empty mapping when first and last are deeply equal.
C13_DiffAllFirstLast ==
  (pc = "returned" /\ call.op = "diffAll")
  => /\ Len(call.objects) >= 2 =>
          ret = diff(call.objects[1], call.objects[Len(call.objects)], call.options)
     /\ Len(call.objects) < 2 => (ret.t = "object" /\ ret.v = <<>>)
     /\ (Len(call.objects) >= 2 /\ isEqual(call.objects[1], call.objects[Len(call.objects)]))
          => (ret.t = "object" /\ ret.v = <<>>)

\* Three mappings, the middle one equal to neither end, and a result with entries.
C13_Witness ==
  /\ pc = "returned" /\ call.op = "diffAll"
  /\ Len(call.objects) = 3
  /\ \A i \in 1..3 : call.objects[i].t = "object"
  /\ ~isEqual(call.objects[1], call.objects[2])
  /\ ~isEqual(call.objects[2], call.objects[3])
  /\ ret.t = "object" /\ Len(ret.v) >= 2
  /\ ~isEqual(ret, diff(call.objects[1], call.objects[2], call.options))

\* ------------------------------------------------ C14
\* The array strategies each operation allows.
AllowedStrategies(op) ==
  IF op \in {"diff", "diffAll"} THEN {"undefined", "replace", "elements"}
  ELSE {"undefined", "replace", "concat"}

\* The failure a rejected configuration would give.
InvalidConfiguration == [t |-> "error", v |-> "InvalidConfiguration"]

\* C14: a call of merge, mergeAll or diff whose arrayStrategy is outside the
\* operation's allowed set fails with InvalidConfiguration.
C14_InvalidConfigurationRejected ==
  (pc = "returned" /\ call.options.arrayStrategy \notin AllowedStrategies(call.op))
  => ret = InvalidConfiguration

\* ------------------------------------------------ schema traversal: inputs and calls
sch(ps) == Obj(ps, "schema")

schArr(es) == Arr(es, "schema")

kType == <<"type">>

kName == <<"name">>

kAge == <<"age">>

kUser == <<"user">>

kId == <<"id">>

\* {type: t}
typed(t) == sch(<< <<kType, Str(t)>> >>)

\* {type:'object', properties:{name:{type:'string'}, age:{type:'number'}}}
schemaSimple ==
  sch(<< <<kType, Str("object")>>,
         <<kProperties, sch(<< <<kName, typed("string")>>, <<kAge, typed("number")>> >>)>> >>)

\* {type:'object', properties:{user:{type:'object', properties:{id:{type:'integer'}}}}}
schemaNested ==
  sch(<< <<kType, Str("object")>>,
         <<kProperties,
           sch(<< <<kUser, sch(<< <<kType, Str("object")>>,
                                  <<kProperties, sch(<< <<kId, typed("integer")>> >>)>> >>)>> >>)>> >>)

\* {type:'array', items:{type:'string'}}
schemaArray == sch(<< <<kType, Str("array")>>, <<kItems, typed("string")>> >>)

\* {type:'array', items:[{type:'number'}, {type:'string'}]}
schemaTuple ==
  sch(<< <<kType, Str("array")>>, <<kItems, schArr(<<typed("number"), typed("string")>>)>> >>)

\* {allOf:[{type:'object', properties:{a:{type:'string'}}}],
\*  anyOf:[{type:'object', properties:{b:{type:'number'}}}], oneOf:[{type:'boolean'}]}
schemaCombiners ==
  sch(<< <<kAllOf, schArr(<< sch(<< <<kType, Str("object")>>,
                                    <<kProperties, sch(<< <<ka, typed("string")>> >>)>> >>) >>)>>,
         <<kAnyOf, schArr(<< sch(<< <<kType, Str("object")>>,
                                    <<kProperties, sch(<< <<kb, typed("number")>> >>)>> >>) >>)>>,
         <<kOneOf, schArr(<< typed("boolean") >>)>> >>)

\* {not:{type:'null'}, if:{properties:{a:{type:'number'}}}, then:{items:{type:'string'}},
\*  else:{type:'else'}}
schemaConditional ==
  sch(<< <<kNot, typed("null")>>,
         <<kIf, sch(<< <<kProperties, sch(<< <<ka, typed("number")>> >>)>> >>)>>,
         <<kThen, sch(<< <<kItems, typed("string")>> >>)>>,
         <<kElse, typed("else")>> >>)

\* {properties:{a:{type:'string'}},
\*  dependentSchemas:{a:{properties:{b:{type:'number'}}}, x:{type:'x'}}}
schemaDependent ==
  sch(<< <<kProperties, sch(<< <<ka, typed("string")>> >>)>>,
         <<kDependentSchemas,
           sch(<< <<ka, sch(<< <<kProperties, sch(<< <<kb, typed("number")>> >>)>> >>)>>,
                  <<kx, typed("x")>> >>)>> >>)

\* {additionalProperties:{type:'string'}, patternProperties:{x:{type:'number'}}}
schemaAdditional ==
  sch(<< <<kAdditionalProperties, typed("string")>>,
         <<kPatternProperties, sch(<< <<kx, typed("number")>> >>)>> >>)

\* {patternProperties:{x:{type:'number'}}}
schemaPattern == sch(<< <<kPatternProperties, sch(<< <<kx, typed("number")>> >>)>> >>)

\* Children that are no mappings:
\* {properties:{a:true, b:{type:'string'}}, items:'s', allOf:[false, {type:'t'}], not:null}
schemaMalformed ==
  sch(<< <<kProperties, sch(<< <<ka, Bool(TRUE)>>, <<kb, typed("string")>> >>)>>,
         <<kItems, Str("s")>>,
         <<kAllOf, schArr(<< Bool(FALSE), typed("t") >>)>>,
         <<kNot, Null>> >>)

\* Children that are sequences:
\* {properties:{a:[{type:'x'}], b:{type:'string'}}, allOf:[[{type:'x'}], {type:'t'}], if:[]}
schemaSequences ==
  sch(<< <<kProperties, sch(<< <<ka, schArr(<< typed("x") >>)>>, <<kb, typed("string")>> >>)>>,
         <<kAllOf, schArr(<< schArr(<< typed("x") >>), typed("t") >>)>>,
         <<kIf, schArr(<<>>)>> >>)

\* Keywords for both shapes of data on one node:
\* {properties:{a:{type:'string'}}, items:{type:'number'}}
schemaBoth ==
  sch(<< <<kProperties, sch(<< <<ka, typed("string")>> >>)>>, <<kItems, typed("number")>> >>)

\* {items:{items:{type:'number'}}}
schemaArrayOfArrays == sch(<< <<kItems, sch(<< <<kItems, typed("number")>> >>)>> >>)

\* {properties:{a:{items:{properties:{b:{type:'number'}}}}, x:{type:'x'}}}
schemaArrayInObject ==
  sch(<< <<kProperties,
           sch(<< <<ka, sch(<< <<kItems,
                                 sch(<< <<kProperties, sch(<< <<kb, typed("number")>> >>)>> >>)>> >>)>>,
                  <<kx, typed("x")>> >>)>> >>)

\* {items:[{type:'number'}, {properties:{b:{type:'string'}}}, {type:'string'}]}
schemaTuple3 ==
  sch(<< <<kItems, schArr(<< typed("number"),
                             sch(<< <<kProperties, sch(<< <<kb, typed("string")>> >>)>> >>),
                             typed("string") >>)>> >>)

Schemas ==
  { schemaSimple, schemaNested, schemaArray, schemaTuple, schemaCombiners, schemaConditional,
    schemaDependent, schemaAdditional, schemaPattern, schemaMalformed, schemaBoth,
    schemaArrayOfArrays, schemaArrayInObject, schemaTuple3, schemaSequences, sch(<<>>),
    Bool(TRUE), Null }

\* The data a traversal walks: scalars, null, undefined, sequences of length 0
\* to 3 (of scalars, of sequences, of mappings), mappings with and without
\* the keys the schemas name.
TraversalData ==
  { Undefined, Null, Num(1), Str("p"),
    srcArr(<<>>),
    srcArr(<<Str("p"), Str("q")>>),
    srcArr(<<Num(1), Num(2), Num(3)>>),
    srcArr(<<Num(10)>>),
    srcArr(<<srcArr(<<Num(1)>>), srcArr(<<Num(2), Num(3)>>)>>),
    srcArr(<<srcObj(<< <<kb, Num(1)>> >>), srcObj(<< <<kc, Num(2)>> >>)>>),
    srcObj(<<>>),
    srcObj(<< <<kName, Str("Test")>>, <<kAge, Num(30)>> >>),
    srcObj(<< <<kUser, srcObj(<< <<kId, Num(123)>> >>)>> >>),
    srcObj(<< <<ka, Str("test")>>, <<kb, Num(123)>> >>),
    srcObj(<< <<kb, Num(2)>>, <<kx, Null>> >>),
    srcObj(<< <<ka, srcArr(<<srcObj(<< <<kb, Num(1)>> >>), Num(5)>>)>>, <<kx, Num(1)>> >>) }

\* The arguments of one call of the traverser, drawn before the call.
InitTraverse ==
  /\ pc = "api"
  /\ options = [arrayStrategy |-> "undefined"]
  /\ sourceObjects = <<>>
  /\ finalMergedData = Obj(<<>>, "own")
  /\ metadata = NoMeta
  /\ \/ \E schema \in Schemas :
          call = [op |-> "traverseSchema", objects |-> <<schema>>, options |-> NoOptions]
     \/ \E schema \in Schemas, data \in TraversalData :
          call = [op |-> "traverseData", objects |-> <<schema, data>>, options |-> NoOptions]
  /\ ret = Undefined

\* traverseSchema(schema, callback) returns; ret holds the contexts the
\* callback was given.
CallTraverseSchema ==
  /\ pc = "api"
  /\ call.op = "traverseSchema"
  /\ pc' = "returned"
  /\ ret' = [visits |-> traverseSchema(call.objects[1]), error |-> FALSE]
  /\ UNCHANGED <<options, sourceObjects, finalMergedData, metadata, call>>

\* traverseData(schema, data, callback) returns or fails.
CallTraverseData ==
  /\ pc = "api"
  /\ call.op = "traverseData"
  /\ pc' = "returned"
  /\ ret' = traverseData(call.objects[1], call.objects[2])
  /\ UNCHANGED <<options, sourceObjects, finalMergedData, metadata, call>>

NextTraverse == CallTraverseSchema \/ CallTraverseData

SpecTraverse == InitTraverse /\ [][NextTraverse]_vars

\* ---- the call tree behind a list of visits
\* The visits made by the calls that visit j made directly, in call order.
ChildrenOf(visits, j) ==
  LET isChild(k) ==
        /\ k > j
        /\ visits[k].depth = visits[j].depth + 1
        /\ \A m \in (j + 1)..(k - 1) : visits[m].depth > visits[j].depth
  IN SelectSeq([k \in 1..Len(visits) |-> k], isChild)

\* The children reached through `properties`: their path is one key longer.
ViaProperties(visits, j) ==
  LET longer(k) == Len(visits[k].path) = Len(visits[j].path) + 1
  IN SelectSeq(ChildrenOf(visits, j), longer)

\* The children reached through `items`: same path, a propertyName.
ViaItems(visits, j) ==
  LET indexed(k) == visits[k].path = visits[j].path /\ visits[k].propertyName.t = "key"
  IN SelectSeq(ChildrenOf(visits, j), indexed)

\* The children reached through any other keyword: same path, no propertyName.
ViaConstraints(visits, j) ==
  LET plain(k) == visits[k].path = visits[j].path /\ visits[k].propertyName.t = "undefined"
  IN SelectSeq(ChildrenOf(visits, j), plain)

\* A non-sequence mapping.
isMapping(x) == x.t = "object"

\* Every value of a mapping, or element of a sequence, is a mapping.
AllMappingsIn(x) ==
  /\ x.t = "object" => \A i \in 1..Len(x.v) : isMapping(x.v[i][2])
  /\ x.t = "array" => \A i \in 1..Len(x.v) : isMapping(x.v[i])

Returned(op) == pc = "returned" /\ call.op = op

\* ------------------------------------------------ C17
\* The sub-schemas dependentSchemas names and no other keyword of the node does.
OnlyDependent(node) ==
  LET dependentSchemas == Get(node, kDependentSchemas)
      others == UNION { IF isArray(Get(node, kw))
                        THEN {Get(node, kw).v[i] : i \in 1..Len(Get(node, kw).v)}
                        ELSE {Get(node, kw)} : kw \in {kAllOf, kAnyOf, kOneOf, kNot, kIf, kThen, kElse} }
  IN {GetProp(dependentSchemas, forInKeys(dependentSchemas)[i]) :
        i \in 1..Len(forInKeys(dependentSchemas))} \ others

\* C17: traverseData raises no error for any schema and data; where the data
\* value is no non-sequence mapping, no child is visited through `properties`
\* or `dependentSchemas`; where it is no sequence, none through `items`; the
\* node itself is visited (a schema with properties against [1,2,3] gives one
\* visit, the root).
C17_ShapeGating ==
  Returned("traverseData") =>
    /\ ~ret.error
    /\ typeofObject(call.objects[1]) =>
         (/\ Len(ret.visits) >= 1
          /\ ret.visits[1].schemaNode = call.objects[1]
          /\ ret.visits[1].dataValue = call.objects[2])
    /\ \A j \in 1..Len(ret.visits) :
         LET v == ret.visits[j]
         IN /\ ~isMapping(v.dataValue) =>
                 /\ ViaProperties(ret.visits, j) = <<>>
                 /\ \A k \in 1..Len(ViaConstraints(ret.visits, j)) :
                      ret.visits[ViaConstraints(ret.visits, j)[k]].schemaNode
                        \notin OnlyDependent(v.schemaNode)
            /\ ~isArray(v.dataValue) => ViaItems(ret.visits, j) = <<>>
    /\ (call.objects[1] = schemaSimple /\ isArray(call.objects[2])) => Len(ret.visits) = 1

\* The schema with properties and items against [1,2,3]: the items are
\* visited, the properties are not; and the schema with properties alone
\* against a sequence gives the single visit of the root.
C17_Witness ==
  /\ Returned("traverseData")
  /\ call.objects[1] = schemaBoth
  /\ call.objects[2] = srcArr(<<Num(1), Num(2), Num(3)>>)
  /\ ~ret.error
  /\ Len(ret.visits) = 4
  /\ ViaProperties(ret.visits, 1) = <<>>
  /\ Len(ViaItems(ret.visits, 1)) = 3

\* ------------------------------------------------ C18
\* The item visits a node with `items` and a sequence as data must make.
ExpectedItemVisits(v) ==
  LET items == Get(v.schemaNode, kItems)
      n == Len(v.dataValue.v)
      count == IF isArray(items) THEN IF Len(items.v) < n THEN Len(items.v) ELSE n ELSE n
  IN [i \in 1..count |->
        [schemaNode |-> IF isArray(items) THEN items.v[i] ELSE items,
         dataValue |-> v.dataValue.v[i],
         path |-> v.path,
         propertyName |-> Key(StringOf(i - 1)),
         parentSchemaNode |-> v.schemaNode,
         depth |-> v.depth + 1]]

\* C18: at a node with a single item schema and sequence data of length n the
\* item schema is visited exactly n times, in index order, each time with the
\* path of the array, propertyName the stringified index and dataValue that
\* element; with tuple items, element i is visited, in the same way, exactly
\* when i is less than the length of the data.
C18_ItemsVisits ==
  Returned("traverseData") =>
    \A j \in 1..Len(ret.visits) :
      LET v == ret.visits[j]
          items == Get(v.schemaNode, kItems)
      IN (/\ v.schemaNode.t = "object" /\ hasOwn(v.schemaNode, kItems)
          /\ isArray(v.dataValue)
          /\ isMapping(items) \/ (isArray(items) /\ AllMappingsIn(items)))
         => [k \in 1..Len(ViaItems(ret.visits, j)) |-> ret.visits[ViaItems(ret.visits, j)[k]]]
              = ExpectedItemVisits(v)

\* ['p','q'] under a single item schema: two item visits, '0' with 'p' and
\* '1' with 'q', at the path of the array.
C18_Witness ==
  /\ Returned("traverseData")
  /\ call.objects[1] = schemaArray
  /\ call.objects[2] = srcArr(<<Str("p"), Str("q")>>)
  /\ Len(ret.visits) = 3
  /\ ret.visits[2].propertyName = Key(StringOf(0)) /\ ret.visits[2].dataValue = Str("p")
  /\ ret.visits[3].propertyName = Key(StringOf(1)) /\ ret.visits[3].dataValue = Str("q")
  /\ ret.visits[2].path = <<>> /\ ret.visits[3].path = <<>>

\* A tuple of three against a sequence of one, and a tuple of two against a
\* sequence of three: one and two item visits.
C18_WitnessTuple ==
  /\ Returned("traverseData")
  /\ \/ /\ call.objects[1] = schemaTuple3
        /\ call.objects[2] = srcArr(<<Num(10)>>)
        /\ Len(ViaItems(ret.visits, 1)) = 1
     \/ /\ call.objects[1] = schemaTuple
        /\ call.objects[2] = srcArr(<<Num(1), Num(2), Num(3)>>)
        /\ Len(ViaItems(ret.visits, 1)) = 2

\* ------------------------------------------------ C19
\* The property visits a node with `properties` and a mapping as data must make.
ExpectedPropertyVisits(v) ==
  LET properties == Get(v.schemaNode, kProperties)
  IN [i \in 1..Len(properties.v) |->
        [schemaNode |-> properties.v[i][2],
         dataValue |-> Get(v.dataValue, properties.v[i][1]),
         path |-> Append(v.path, properties.v[i][1]),
         propertyName |-> Key(properties.v[i][1]),
         parentSchemaNode |-> v.schemaNode,
         depth |-> v.depth + 1]]

\* C19: at a node with `properties` whose data value is a non-sequence
\* mapping, every property the schema names is visited exactly once, with the
\* path extended by the key and dataValue = data[key]; a property whose key the
\* data lacks is visited too, with an undefined dataValue.
C19_PropertiesVisits ==
  Returned("traverseData") =>
    \A j \in 1..Len(ret.visits) :
      LET v == ret.visits[j]
          properties == Get(v.schemaNode, kProperties)
      IN (/\ v.schemaNode.t = "object" /\ hasOwn(v.schemaNode, kProperties)
          /\ isMapping(v.dataValue)
          /\ isMapping(properties) /\ AllMappingsIn(properties))
         => [k \in 1..Len(ViaProperties(ret.visits, j)) |-> ret.visits[ViaProperties(ret.visits, j)[k]]]
              = ExpectedPropertyVisits(v)

\* Properties a and b against data without a: a is visited with undefined,
\* b with its value.
C19_Witness ==
  /\ Returned("traverseData")
  /\ call.objects[1] = schemaCombiners
  /\ call.objects[2] = srcObj(<< <<kb, Num(2)>>, <<kx, Null>> >>)
  /\ \E j \in 1..Len(ret.visits) :
       ret.visits[j].path = <<ka>> /\ ret.visits[j].dataValue = Undefined
  /\ \E j \in 1..Len(ret.visits) :
       ret.visits[j].path = <<kb>> /\ ret.visits[j].dataValue = Num(2)

\* ------------------------------------------------ C20
\* C20: in traverseSchema every sub-schema under `properties` is visited with
\* path = the owner's path + [key], propertyName = key and parentSchemaNode =
\* the node that owns `properties`; the root is visited with an empty path, no
\* propertyName and no parentSchemaNode.
C20_SchemaPropertiesContext ==
  Returned("traverseSchema") =>
    /\ typeofObject(call.objects[1]) =>
         (/\ Len(ret.visits) >= 1
          /\ ret.visits[1].schemaNode = call.objects[1]
          /\ ret.visits[1].path = <<>>
          /\ ret.visits[1].propertyName = Undefined
          /\ ret.visits[1].parentSchemaNode = Undefined)
    /\ \A j \in 1..Len(ret.visits) :
         LET v == ret.visits[j]
             properties == Get(v.schemaNode, kProperties)
         IN (/\ v.schemaNode.t = "object" /\ hasOwn(v.schemaNode, kProperties)
             /\ isMapping(properties) /\ AllMappingsIn(properties))
            => [k \in 1..Len(ViaProperties(ret.visits, j)) |->
                  ret.visits[ViaProperties(ret.visits, j)[k]]]
                 = [i \in 1..Len(properties.v) |->
                      [schemaNode |-> properties.v[i][2],
                       path |-> Append(v.path, properties.v[i][1]),
                       propertyName |-> Key(properties.v[i][1]),
                       parentSchemaNode |-> v.schemaNode,
                       depth |-> v.depth + 1]]

\* The nested schema: user is visited under the root, user.id under user.
C20_Witness ==
  /\ Returned("traverseSchema")
  /\ call.objects[1] = schemaNested
  /\ Len(ret.visits) = 3
  /\ ret.visits[2].path = <<kUser>>
  /\ ret.visits[2].parentSchemaNode = call.objects[1]
  /\ ret.visits[3].path = <<kUser, kId>>
  /\ ret.visits[3].propertyName = Key(kId)
  /\ ret.visits[3].parentSchemaNode = ret.visits[2].schemaNode

\* ------------------------------------------------ schema enricher
\* path.join('.'): the segments of the keys of a path, in order.
RECURSIVE joinPath(_)
joinPath(path) == IF path = <<>> THEN <<>> ELSE Head(path) \o joinPath(Tail(path))

\* The widget descriptor written for a provenance record.
widgetOf(metadataForPath) ==
  [widget |->
     [sourceIds |-> IF metadataForPath.sourceId.t = "array"
                    THEN metadataForPath.sourceId
                    ELSE Arr(<<metadataForPath.sourceId>>, "own"),
      inheritedValue |-> metadataForPath.value]]

\* Slip: the annotation is written under the last key of the path.
visitorLastKey(schemaUI, md, context) ==
  LET p == joinPath(context.path)
  IN IF p \in DOMAIN md
     THEN MapSet(schemaUI, context.path[Len(context.path)], widgetOf(md[p]))
     ELSE schemaUI

\* The visitor enrichSchema hands to traverseData: schemaUI after one visit.
visitor(schemaUI, md, context) ==
  LET p == joinPath(context.path)
  IN IF p \in DOMAIN md THEN MapSet(schemaUI, p, widgetOf(md[p])) ELSE schemaUI

\* schemaUI after the visits from position i on.
RECURSIVE visitAll(_, _, _, _)
visitAll(schemaUI, md, visits, i) ==
  IF i > Len(visits) THEN schemaUI
  ELSE visitAll(visitor(schemaUI, md, visits[i]), md, visits, i + 1)

\* jsonArray.map(json => ({id: json.id, data: json}))
sourceObjectsOf(jsonArray) ==
  [i \in 1..Len(jsonArray) |-> [id |-> Get(jsonArray[i], kId), data |-> jsonArray[i]]]

\* Slip: the annotations are written into a new map, not the caller's.
enrichSchemaFreshMap(schema, schemaUI, jsonArray) ==
  LET r == mergeAllWithMetadata(sourceObjectsOf(jsonArray), NoOptions)
      t == traverseData(schema, r.mergedObject)
  IN [schema |-> schema,
      schemaUI |-> visitAll(NoMeta, r.metadata, t.visits, 1),
      mergedJson |-> r.mergedObject]

\* enrichSchema(schema, schemaUI, jsonArray)
enrichSchema(schema, schemaUI, jsonArray) ==
  LET r == mergeAllWithMetadata(sourceObjectsOf(jsonArray), NoOptions)
      t == traverseData(schema, r.mergedObject)
  IN [schema |-> schema,
      schemaUI |-> visitAll(schemaUI, r.metadata, t.visits, 1),
      mergedJson |-> r.mergedObject]

\* ---- inputs and the call
\* Longest list of input objects handed to enrichSchema.
MaxInputs == 3

\* {id:'1', name:'Alice', age:25}
jsonAlice == srcObj(<< <<kId, Str("1")>>, <<kName, Str("Alice")>>, <<kAge, Num(25)>> >>)

\* {id:'2', name:'Bob'}
jsonBob == srcObj(<< <<kId, Str("2")>>, <<kName, Str("Bob")>> >>)

\* {id:'3', age:30}
jsonAge == srcObj(<< <<kId, Str("3")>>, <<kAge, Num(30)>> >>)

\* Input objects: the three of the example, one that deletes a field, one
\* with a nested mapping, one that replaces the mapping by a scalar, one with a
\* sequence of mappings.
JsonObjects ==
  { jsonAlice, jsonBob, jsonAge,
    srcObj(<< <<kId, Str("4")>>, <<kName, Undefined>> >>),
    srcObj(<< <<kId, Str("5")>>, <<kUser, srcObj(<< <<kId, Num(123)>>, <<kName, Str("u")>> >>)>> >>),
    srcObj(<< <<kId, Str("6")>>, <<kUser, Num(0)>>, <<kAge, Null>> >>),
    srcObj(<< <<kId, Str("7")>>, <<ka, srcArr(<<srcObj(<< <<kb, Num(1)>> >>)>>)>>, <<kx, Num(1)>> >>) }

\* {properties:{name:..., age:..., user:{properties:{id:..., name:...}}, id:...}}
schemaPerson ==
  sch(<< <<kProperties,
           sch(<< <<kName, typed("string")>>, <<kAge, typed("number")>>,
                  <<kUser, sch(<< <<kProperties, sch(<< <<kId, typed("integer")>>,
                                                        <<kName, typed("string")>> >>)>> >>)>>,
                  <<kId, typed("string")>> >>)>> >>)

EnrichSchemas == { schemaSimple, schemaNested, schemaPerson, schemaArrayInObject }

\* An annotation the caller wrote before the call.
oldAnnotation == Str("old")

\* The annotation map handed in: empty, or with entries at a path the call
\* writes, at a path a schema names and at a path no schema names.
InitialAnnotations ==
  { NoMeta,
    [p \in {kName, <<"zz">>} |-> oldAnnotation],
    [p \in {kUser \o kId, kx} |-> oldAnnotation] }

InitEnrich ==
  /\ pc = "api"
  /\ options = NoOptions
  /\ sourceObjects = <<>>
  /\ finalMergedData = Obj(<<>>, "own")
  /\ metadata = NoMeta
  /\ \E schema \in EnrichSchemas, schemaUI \in InitialAnnotations :
       \E n \in 0..MaxInputs : \E jsonArray \in [1..n -> JsonObjects] :
         call = [op |-> "enrichSchema", objects |-> <<schema, schemaUI, jsonArray>>,
                 options |-> NoOptions]
  /\ ret = Undefined

\* enrichSchema(schema, schemaUI, jsonArray) returns; sourceObjects,
\* finalMergedData and metadata are those of the merge it ran.
CallEnrichSchema ==
  /\ pc = "api"
  /\ call.op = "enrichSchema"
  /\ pc' = "returned"
  /\ LET r == mergeAllWithMetadata(sourceObjectsOf(call.objects[3]), NoOptions)
     IN /\ sourceObjects' = sourceObjectsOf(call.objects[3])
        /\ finalMergedData' = r.mergedObject
        /\ metadata' = r.metadata
  /\ ret' = enrichSchema(call.objects[1], call.objects[2], call.objects[3])
  /\ UNCHANGED <<options, call>>

NextEnrich == CallEnrichSchema

SpecEnrich == InitEnrich /\ [][NextEnrich]_vars

\* ------------------------------------------------ C15
\* The dotted paths traverseData(schema, merged value) visits.
VisitedPaths(schema, data) ==
  LET t == traverseData(schema, data)
  IN {joinPath(t.visits[i].path) : i \in 1..Len(t.visits)}

\* The paths enrichSchema must write: visited, and with a provenance entry.
AnnotatedPaths == VisitedPaths(call.objects[1], ret.mergedJson) \cap DOMAIN metadata

\* C15: enrichSchema writes {widget: {sourceIds: [id], inheritedValue: v}} at
\* exactly the dotted paths traverseData(schema, merged value) visits that have
\* an entry in the global provenance map, id and v being that entry's; the
\* example of three inputs gives name 'Bob', age 30 and the annotations name ->
\* (['2'], 'Bob'), age -> (['3'], 30) and nothing else.
C15_AnnotationsWritten ==
  Returned("enrichSchema") =>
    /\ ret.mergedJson = finalMergedData
    /\ \A p \in AnnotatedPaths :
         /\ p \in DOMAIN ret.schemaUI
         /\ ret.schemaUI[p] =
              [widget |-> [sourceIds |-> Arr(<<metadata[p].sourceId>>, "own"),
                           inheritedValue |-> metadata[p].value]]
    /\ \A p \in DOMAIN ret.schemaUI \ AnnotatedPaths :
         p \in DOMAIN call.objects[2] /\ ret.schemaUI[p] = call.objects[2][p]
    /\ (/\ call.objects[1] = schemaSimple
        /\ call.objects[2] = NoMeta
        /\ call.objects[3] = <<jsonAlice, jsonBob, jsonAge>>)
       => /\ Get(ret.mergedJson, kName) = Str("Bob")
          /\ Get(ret.mergedJson, kAge) = Num(30)
          /\ DOMAIN ret.schemaUI = {kName, kAge}
          /\ ret.schemaUI[kName] =
               [widget |-> [sourceIds |-> Arr(<<Str("2")>>, "own"), inheritedValue |-> Str("Bob")]]
          /\ ret.schemaUI[kAge] =
               [widget |-> [sourceIds |-> Arr(<<Str("3")>>, "own"), inheritedValue |-> Num(30)]]

\* The example: Alice, Bob and the age 30 under the schema with name and age.
C15_Witness ==
  /\ Returned("enrichSchema")
  /\ call.objects[1] = schemaSimple
  /\ call.objects[2] = NoMeta
  /\ call.objects[3] = <<jsonAlice, jsonBob, jsonAge>>
  /\ DOMAIN ret.schemaUI = {kName, kAge}
  /\ ret.schemaUI[kName].widget.inheritedValue = Str("Bob")
  /\ ret.schemaUI[kAge].widget.sourceIds.v = <<Str("3")>>

\* ------------------------------------------------ C16
\* C16: enrichSchema returns the schema it was given, as it was given; what
\* it builds (the merged value, the values of the annotations) holds no node of
\* the schema or of the input objects, so its writes reach neither; its only
\* write to caller data is into the annotation map, where every entry at a
\* path it does not write keeps its value.
C16_EnrichFrame ==
  Returned("enrichSchema") =>
    /\ ret.schema = call.objects[1]
    /\ sourceObjects = sourceObjectsOf(call.objects[3])
    /\ Refs(ret.mergedJson) \subseteq {"own"}
    /\ \A p \in AnnotatedPaths : Refs(ret.schemaUI[p].widget.inheritedValue) \subseteq {"own"}
    /\ DOMAIN ret.schemaUI = DOMAIN call.objects[2] \cup AnnotatedPaths
    /\ \A p \in DOMAIN call.objects[2] \ AnnotatedPaths : ret.schemaUI[p] = call.objects[2][p]

\* A map with an entry at a written path and one at a path never visited: the
\* first is replaced, the second kept.
C16_Witness ==
  /\ Returned("enrichSchema")
  /\ call.objects[2] = [p \in {kName, <<"zz">>} |-> oldAnnotation]
  /\ Len(call.objects[3]) = 2
  /\ kName \in AnnotatedPaths
  /\ ret.schemaUI[kName] # oldAnnotation
  /\ ret.schemaUI[<<"zz">>] = oldAnnotation
  /\ ret.schema = call.objects[1]

\* ------------------------------------------------ C21
\* The keywords other than `properties` and `items` that have a schema handler.
ConstraintKeywords ==
  { kAllOf, kAnyOf, kOneOf, kNot, kIf, kThen, kElse, kDependentSchemas,
    kAdditionalProperties, kPatternProperties }

\* The node declares `items` and no keyword that descends at the same path
\* without a propertyName.
ItemsOnly(node) ==
  /\ node.t = "object"
  /\ hasOwn(node, kItems)
  /\ \A kw \in ConstraintKeywords : ~hasOwn(node, kw)

\* C21: in traverseSchema a single item schema is visited exactly once, with
\* the path of the containing array node and no propertyName; the elements of
\* a tuple are visited once each, in index order, with the path of the array
\* and propertyName = the stringified index.
C21_SchemaItemsVisits ==
  Returned("traverseSchema") =>
    \A j \in 1..Len(ret.visits) :
      LET v == ret.visits[j]
          items == Get(v.schemaNode, kItems)
          viaItems == [k \in 1..Len(ViaItems(ret.visits, j)) |->
                         ret.visits[ViaItems(ret.visits, j)[k]]]
          viaConstraints == [k \in 1..Len(ViaConstraints(ret.visits, j)) |->
                               ret.visits[ViaConstraints(ret.visits, j)[k]]]
      IN /\ (ItemsOnly(v.schemaNode) /\ isMapping(items)) =>
              /\ viaItems = <<>>
              /\ viaConstraints =
                   << [schemaNode |-> items, path |-> v.path, propertyName |-> Undefined,
                       parentSchemaNode |-> v.schemaNode, depth |-> v.depth + 1] >>
         /\ (ItemsOnly(v.schemaNode) /\ isArray(items) /\ AllMappingsIn(items)) =>
              /\ viaConstraints = <<>>
              /\ viaItems =
                   [i \in 1..Len(items.v) |->
                      [schemaNode |-> items.v[i], path |-> v.path,
                       propertyName |-> Key(StringOf(i - 1)),
                       parentSchemaNode |-> v.schemaNode, depth |-> v.depth + 1]]

\* The array schema: the root and its item schema, both at the empty path,
\* the item schema without a propertyName.
C21_Witness ==
  /\ Returned("traverseSchema")
  /\ call.objects[1] = schemaArray
  /\ Len(ret.visits) = 2
  /\ ret.visits[2].schemaNode = typed("string")
  /\ ret.visits[2].path = <<>>
  /\ ret.visits[2].propertyName = Undefined

\* The tuple schema: the elements in index order, named '0' and '1'.
C21_WitnessTuple ==
  /\ Returned("traverseSchema")
  /\ call.objects[1] = schemaTuple
  /\ Len(ret.visits) = 3
  /\ ret.visits[2].schemaNode = typed("number")
  /\ ret.visits[2].propertyName = Key(StringOf(0))
  /\ ret.visits[3].schemaNode = typed("string")
  /\ ret.visits[3].propertyName = Key(StringOf(1))
  /\ ret.visits[2].path = <<>> /\ ret.visits[3].path = <<>>

\* ------------------------------------------------ C22
\* p is a prefix of q.
IsPrefix(p, q) == Len(p) <= Len(q) /\ SubSeq(q, 1, Len(p)) = p

\* The visit whose call made visit k: the nearest earlier visit one level up;
\* 0 if there is none.
CallerOf(visits, k) ==
  LET up == {m \in 1..(k - 1) : visits[m].depth = visits[k].depth - 1}
  IN IF up = {} THEN 0 ELSE CHOOSE m \in up : \A n \in up : n <= m

\* The visits are those of a depth-first pre-order walk: the first visit is of
\* the root, every later visit comes after the visit of the node it was
\* reached through (whose schema node is its parentSchemaNode and whose path
\* its path extends), and it belongs to the subtree that was open when it was
\* made, so a subtree is closed before the next sibling starts.
PreOrder(visits, root) ==
  /\ visits # <<>> =>
       /\ visits[1].depth = 0
       /\ visits[1].schemaNode = root
       /\ visits[1].parentSchemaNode = Undefined
  /\ \A k \in 2..Len(visits) :
       /\ visits[k].depth >= 1
       /\ visits[k].depth <= visits[k - 1].depth + 1
       /\ CallerOf(visits, k) # 0
       /\ visits[k].parentSchemaNode = visits[CallerOf(visits, k)].schemaNode
       /\ IsPrefix(visits[CallerOf(visits, k)].path, visits[k].path)
       /\ \A m \in (CallerOf(visits, k) + 1)..(k - 1) :
            visits[m].depth >= visits[k].depth

\* C22: traverseSchema and traverseData visit depth-first in pre-order; for
\* the schema with allOf, anyOf and oneOf the paths come in the order root,
\* allOf member and its property a, anyOf member and its property b, oneOf
\* member, the members at the path of their owner.
C22_PreOrder ==
  /\ (Returned("traverseSchema") \/ Returned("traverseData")) =>
       PreOrder(ret.visits, call.objects[1])
  /\ (Returned("traverseSchema") /\ call.objects[1] = schemaCombiners) =>
       /\ [k \in 1..Len(ret.visits) |-> ret.visits[k].path]
            = << <<>>, <<>>, <<ka>>, <<>>, <<kb>>, <<>> >>
       /\ [k \in 1..Len(ret.visits) |-> ret.visits[k].schemaNode]
            = << schemaCombiners,
                 Get(schemaCombiners, kAllOf).v[1], typed("string"),
                 Get(schemaCombiners, kAnyOf).v[1], typed("number"),
                 typed("boolean") >>

\* The schema with the three combiners has been walked: six visits, the
\* property a of the allOf member before the anyOf member.
C22_Witness ==
  /\ Returned("traverseSchema")
  /\ call.objects[1] = schemaCombiners
  /\ Len(ret.visits) = 6
  /\ ret.visits[3].path = <<ka>>
  /\ ret.visits[3].depth = 2
  /\ ret.visits[4].depth = 1

\* The same order in traverseData over {a:'test', b:123}.
C22_WitnessData ==
  /\ Returned("traverseData")
  /\ call.objects[1] = schemaCombiners
  /\ call.objects[2] = srcObj(<< <<ka, Str("test")>>, <<kb, Num(123)>> >>)
  /\ [k \in 1..Len(ret.visits) |-> ret.visits[k].path]
       = << <<>>, <<>>, <<ka>>, <<>>, <<kb>>, <<>> >>

\* ------------------------------------------------ C23
\* The values of a mapping, in insertion order.
ValuesOf(x) == IF x.t = "object" THEN [i \in 1..Len(x.v) |-> x.v[i][2]] ELSE <<>>

\* The sub-schemas a keyword of a schema node names, in the order the schema
\* gives them.
SubSchemasOf(node, keyword) ==
  LET x == Get(node, keyword)
  IN CASE ~hasOwn(node, keyword) -> <<>>
       [] keyword \in {kProperties, kDependentSchemas, kPatternProperties} -> ValuesOf(x)
       [] keyword \in {kAllOf, kAnyOf, kOneOf} -> IF isArray(x) THEN x.v ELSE <<>>
       [] keyword = kItems -> IF isArray(x) THEN x.v ELSE <<x>>
       [] OTHER -> <<x>>

\* The sub-schemas a schema node names under the keywords `properties` to
\* `dependentSchemas`, keyword after keyword.
NamedSubSchemas(node) ==
  SubSchemasOf(node, kProperties) \o SubSchemasOf(node, kItems) \o SubSchemasOf(node, kAllOf)
    \o SubSchemasOf(node, kAnyOf) \o SubSchemasOf(node, kOneOf) \o SubSchemasOf(node, kNot)
    \o SubSchemasOf(node, kIf) \o SubSchemasOf(node, kThen) \o SubSchemasOf(node, kElse)
    \o SubSchemasOf(node, kDependentSchemas)

\* A boolean, number or string.
isScalar(x) == x.t \in {"boolean", "number", "string"}

\* Some sub-schema the node names is a scalar.
HasScalarChild(node) ==
  \E i \in 1..Len(NamedSubSchemas(node)) : isScalar(NamedSubSchemas(node)[i])

\* The schema nodes of the visits the calls of visit j made, in call order.
ChildNodes(visits, j) ==
  [k \in 1..Len(ChildrenOf(visits, j)) |-> visits[ChildrenOf(visits, j)[k]].schemaNode]

\* The node is a mapping without additionalProperties and patternProperties.
PlainNode(node) ==
  node.t = "object" /\ ~hasOwn(node, kAdditionalProperties) /\ ~hasOwn(node, kPatternProperties)

\* Neither null nor undefined.
notNull(x) == x.t \notin {"null", "undefined"}

\* C23 as stated: every non-null sub-schema a visited node names, a boolean
\* or a string included, is visited exactly once, and no error is raised.
C23_MalformedChildVisitedOnce ==
  Returned("traverseSchema") =>
    /\ ~ret.error
    /\ \A j \in 1..Len(ret.visits) :
         PlainNode(ret.visits[j].schemaNode) =>
           ChildNodes(ret.visits, j)
             = SelectSeq(NamedSubSchemas(ret.visits[j].schemaNode), notNull)

\* C23 amended: a scalar or null sub-schema is never handed to the visitor; a
\* sequence reached as a child is visited once and makes no call; the other
\* sub-schemas of the owner are visited as if the scalar were not there, in
\* the same order; no error is raised. In traverseData no visit has a scalar
\* or null schema node either, and the property visits of a mapping are those
\* of the properties that are mappings or sequences.
C23_MalformedChildSkipped ==
  /\ (Returned("traverseSchema") \/ Returned("traverseData")) =>
       /\ ~ret.error
       /\ \A j \in 1..Len(ret.visits) :
            /\ typeofObject(ret.visits[j].schemaNode)
            /\ isArray(ret.visits[j].schemaNode) => ChildrenOf(ret.visits, j) = <<>>
  /\ Returned("traverseSchema") =>
       \A j \in 1..Len(ret.visits) :
         PlainNode(ret.visits[j].schemaNode) =>
           ChildNodes(ret.visits, j)
             = SelectSeq(NamedSubSchemas(ret.visits[j].schemaNode), typeofObject)
  /\ Returned("traverseData") =>
       \A j \in 1..Len(ret.visits) :
         (isMapping(ret.visits[j].schemaNode) /\ isMapping(ret.visits[j].dataValue)) =>
           [k \in 1..Len(ViaProperties(ret.visits, j)) |->
              ret.visits[ViaProperties(ret.visits, j)[k]].schemaNode]
             = SelectSeq(SubSchemasOf(ret.visits[j].schemaNode, kProperties), typeofObject)

\* The schema {properties:{a:true, b:{..}}, items:'s', allOf:[false, {..}],
\* not:null} has been walked: three visits, the root, b and the second allOf
\* member.
C23_Witness ==
  /\ Returned("traverseSchema")
  /\ call.objects[1] = schemaMalformed
  /\ HasScalarChild(call.objects[1])
  /\ ~ret.error
  /\ [k \in 1..Len(ret.visits) |-> ret.visits[k].schemaNode]
       = << schemaMalformed, typed("string"), typed("t") >>

\* A sequence as a child: visited once, nothing behind it.
C23_WitnessSequence ==
  /\ Returned("traverseSchema")
  /\ call.objects[1] = schemaSequences
  /\ [k \in 1..Len(ret.visits) |-> ret.visits[k].schemaNode]
       = << schemaSequences, schArr(<< typed("x") >>), typed("string"),
            schArr(<< typed("x") >>), typed("t"), schArr(<<>>) >>

\* The same schema against a mapping: b is visited, a is not.
C23_WitnessData ==
  /\ Returned("traverseData")
  /\ call.objects[1] = schemaMalformed
  /\ call.objects[2] = srcObj(<< <<ka, Str("test")>>, <<kb, Num(123)>> >>)
  /\ ~ret.error
  /\ [k \in 1..Len(ret.visits) |-> ret.visits[k].path] = << <<>>, <<kb>>, <<>> >>

\* ------------------------------------------------ C24
\* The sub-schemas a node names under allOf, anyOf, oneOf, not, if, then and
\* else that a traversal can visit, keyword after keyword.
ConstraintSubSchemas(node) ==
  SelectSeq(SubSchemasOf(node, kAllOf) \o SubSchemasOf(node, kAnyOf) \o SubSchemasOf(node, kOneOf)
              \o SubSchemasOf(node, kNot) \o SubSchemasOf(node, kIf) \o SubSchemasOf(node, kThen)
              \o SubSchemasOf(node, kElse),
            typeofObject)

\* C24: in traverseData every sub-schema under allOf, anyOf, oneOf, not, if,
\* then or else of a visited node is visited, in that order, with the
\* dataValue and the path of that node, whatever the data value is: a
\* mapping, a sequence, a scalar, null or undefined.
C24_ConstraintsKeepPosition ==
  Returned("traverseData") =>
    \A j \in 1..Len(ret.visits) :
      LET v == ret.visits[j]
          via == ViaConstraints(ret.visits, j)
          expected == ConstraintSubSchemas(v.schemaNode)
      IN isMapping(v.schemaNode) =>
           /\ Len(via) >= Len(expected)
           /\ \A k \in 1..Len(expected) :
                ret.visits[via[k]] =
                  [schemaNode |-> expected[k], dataValue |-> v.dataValue, path |-> v.path,
                   propertyName |-> Undefined, parentSchemaNode |-> v.schemaNode,
                   depth |-> v.depth + 1]
           /\ ~hasOwn(v.schemaNode, kDependentSchemas) => Len(via) = Len(expected)

\* The three combiners against the number 1: the members are visited with 1
\* at the empty path, their properties are not.
C24_Witness ==
  /\ Returned("traverseData")
  /\ call.objects[1] = schemaCombiners
  /\ call.objects[2] = Num(1)
  /\ Len(ret.visits) = 4
  /\ \A k \in 1..4 : ret.visits[k].dataValue = Num(1) /\ ret.visits[k].path = <<>>

\* not, if, then and else against ['p','q']: all four are visited with the
\* whole sequence.
C24_WitnessConditional ==
  /\ Returned("traverseData")
  /\ call.objects[1] = schemaConditional
  /\ call.objects[2] = srcArr(<<Str("p"), Str("q")>>)
  /\ Len(ViaConstraints(ret.visits, 1)) = 4
  /\ \A k \in 1..4 :
       ret.visits[ViaConstraints(ret.visits, 1)[k]].dataValue = call.objects[2]

\* ------------------------------------------------ C25
\* The dependent schemas a visit must descend into: those under a key the
\* data value, a non-sequence mapping, has as an own key.
ExpectedDependentVisits(v) ==
  LET dependentSchemas == Get(v.schemaNode, kDependentSchemas)
      due(i) == /\ isMapping(v.dataValue)
                /\ hasOwnProperty(v.dataValue, dependentSchemas.v[i][1])
                /\ typeofObject(dependentSchemas.v[i][2])
      indices == SelectSeq([i \in 1..Len(dependentSchemas.v) |-> i], due)
  IN [n \in 1..Len(indices) |->
        [schemaNode |-> dependentSchemas.v[indices[n]][2],
         dataValue |-> v.dataValue,
         path |-> v.path,
         propertyName |-> Undefined,
         parentSchemaNode |-> v.schemaNode,
         depth |-> v.depth + 1]]

\* C25: in traverseData the dependent schema under key k is visited if and
\* only if the data value is a non-sequence mapping with k as an own key; the
\* visit has the path of the owner and the whole data value of the owner.
C25_DependentSchemas ==
  Returned("traverseData") =>
    \A j \in 1..Len(ret.visits) :
      LET v == ret.visits[j]
          via == ViaConstraints(ret.visits, j)
          skip == Len(ConstraintSubSchemas(v.schemaNode))
      IN (isMapping(v.schemaNode) /\ isMapping(Get(v.schemaNode, kDependentSchemas))) =>
           [k \in 1..(Len(via) - skip) |-> ret.visits[via[skip + k]]]
             = ExpectedDependentVisits(v)

\* dependentSchemas {a:.., x:..} against {a:'test', b:123}: the schema under a
\* is visited with the whole mapping, the one under x is not.
C25_Witness ==
  /\ Returned("traverseData")
  /\ call.objects[1] = schemaDependent
  /\ call.objects[2] = srcObj(<< <<ka, Str("test")>>, <<kb, Num(123)>> >>)
  /\ Len(ViaConstraints(ret.visits, 1)) = 1
  /\ ret.visits[ViaConstraints(ret.visits, 1)[1]].schemaNode
       = Get(Get(schemaDependent, kDependentSchemas), ka)
  /\ ret.visits[ViaConstraints(ret.visits, 1)[1]].dataValue = call.objects[2]
  /\ ret.visits[ViaConstraints(ret.visits, 1)[1]].path = <<>>

\* The same schema against a sequence and against a mapping without a and x:
\* no dependent schema is visited.
C25_WitnessAbsent ==
  /\ Returned("traverseData")
  /\ call.objects[1] = schemaDependent
  /\ call.objects[2] \in { srcArr(<<Str("p"), Str("q")>>),
                           srcObj(<< <<kName, Str("Test")>>, <<kAge, Num(30)>> >>) }
  /\ ViaConstraints(ret.visits, 1) = <<>>

\* ------------------------------------------------ sequences under provenance
\* {a: [2, 3]}
docSeq23 == srcObj(<< <<ka, srcArr(<<Num(2), Num(3)>>)>> >>)

\* {a: {b: [1]}}
docABSeq == srcObj(<< <<ka, srcObj(<< <<kb, srcArr(<<Num(1)>>)>> >>)>> >>)

\* {"a.b": [1], b: 2}
docDottedSeq == srcObj(<< <<kab, srcArr(<<Num(1)>>)>>, <<kb, Num(2)>> >>)

\* The documents of the sources of a merge that is about sequences: sequences
\* at the first and the second level, of scalars and of mappings, the values
\* a sequence can meet or be replaced by, a removal, and a sequence as the
\* whole document.
SeqData ==
  { docSeq1, docSeq, docSeq23, docABSeq, docDottedSeq, docAB1, docA1, docDelA,
    srcArr(<<Num(1)>>) }

NextSeq ==
  \/ \E id \in SourceIds(Len(sourceObjects) + 1), data \in SeqData :
       mergeAllWithMetadataPass([id |-> id, data |-> data])
  \/ mergeAllWithMetadataReturn

SpecSeq == Init /\ [][NextSeq]_vars

\* ------------------------------------------------ C26
\* <<keys, value>> for every attribute reached through mappings only, keys
\* being the property names on the way, one per level.
RECURSIVE KeyPathValues(_, _)
KeyPathValues(x, prefix) ==
  IF x.t = "object"
  THEN UNION { {<<Append(prefix, x.v[i][1]), x.v[i][2]>>}
               \cup KeyPathValues(x.v[i][2], Append(prefix, x.v[i][1])) : i \in 1..Len(x.v) }
  ELSE {}

\* The node found by following property names from x.
RECURSIVE NodeAtKeys(_, _)
NodeAtKeys(x, keys) ==
  IF keys = <<>> THEN x
  ELSE IF x.t = "object" THEN NodeAtKeys(Get(x, Head(keys)), Tail(keys))
  ELSE Undefined

\* The mappings of a value that lie inside a sequence.
RECURSIVE MappingsInSequences(_, _)
MappingsInSequences(x, inside) ==
  IF x.t = "object"
  THEN (IF inside THEN {x} ELSE {})
         \cup UNION { MappingsInSequences(x.v[i][2], inside) : i \in 1..Len(x.v) }
  ELSE IF x.t = "array"
  THEN UNION { MappingsInSequences(x.v[i], TRUE) : i \in 1..Len(x.v) }
  ELSE {}

\* Every record the engine holds: those of the metadata map and those behind
\* the accessors of the merged value.
AllRecords ==
  {metadata[p] : p \in DOMAIN metadata}
    \cup UNION { {o.meta[k] : k \in DOMAIN o.meta} : o \in MappingNodes(finalMergedData) }

\* No record is for an element of a sequence or for a key of a mapping inside
\* a sequence: every record is for a path some source reaches through
\* mappings only, and no mapping inside a sequence has an accessor.
NoRecordInsideSequences ==
  /\ \A o \in MappingsInSequences(finalMergedData, FALSE) : ~o.hasMeta /\ o.meta = NoMeta
  /\ \A r \in AllRecords :
       \E i \in 1..Len(sourceObjects) : r.path \in PathsOf(sourceObjects[i].data)

\* The merged sequence the source's sequence kv gives at its place.
MergedSequence(kv) ==
  LET previous == NodeAtKeys(finalMergedData, kv[1])
  IN IF isArray(previous) /\ arrayStrategyOf(options) = "concat"
     THEN Arr(previous.v \o kv[2].v, "own")
     ELSE Arr(kv[2].v, "own")

\* The step is one pass of the loop: a source has been merged.
IsPass == pc = "loop" /\ Len(sourceObjects') = Len(sourceObjects) + 1

\* The source that pass has merged.
PassSource == sourceObjects'[Len(sourceObjects')]

\* The sequences a document holds at a non-root place.
SequencesOf(data) == {kv \in KeyPathValues(data, <<>>) : isArray(kv[2])}

\* The record the store of the enclosing mapping holds under the final
\* segment of the path is the one of source s for the sequence kv.
SequenceRecorded(s, kv) ==
  LET p == joinPath(kv[1])
      parent == NodeAtKeys(finalMergedData', Front(kv[1]))
  IN /\ isEqual(NodeAtKeys(finalMergedData', kv[1]), MergedSequence(kv))
     /\ parent.t = "object"
     /\ parent.hasMeta
     /\ parentKeyOf(p) \in DOMAIN parent.meta
     /\ parent.meta[parentKeyOf(p)].sourceId = s.id
     /\ parent.meta[parentKeyOf(p)].path = p
     /\ isEqual(parent.meta[parentKeyOf(p)].value, MergedSequence(kv))

C26_WitnessReplace ==
  /\ arrayStrategyOf(options) = "replace"
  /\ Len(sourceObjects) = 2
  /\ sourceObjects[1].data = docSeq23 /\ sourceObjects[2].data = docSeq
  /\ isEqual(Get(finalMergedData, ka), Arr(<<srcObj(<< <<kb, Num(1)>> >>)>>, "own"))
  /\ MappingsInSequences(finalMergedData, FALSE) # {}
  /\ DOMAIN metadata = {ka}

\* ------------------------------------------------ C27
\* A document that is a scalar or a sequence.
isReplacement(data) == data.t \in {"number", "string", "boolean", "null", "array"}

\* The property names of a mapping.
RootKeys(x) == IF x.t = "object" THEN {x.v[i][1] : i \in 1..Len(x.v)} ELSE {}

\* The position of the last source that is a scalar or a sequence; 0 if none.
LastReplacement ==
  LET rs == {i \in 1..Len(sourceObjects) : isReplacement(sourceObjects[i].data)}
  IN IF rs = {} THEN 0 ELSE CHOOSE i \in rs : \A j \in rs : j <= i

\* The names the sources from position i on hold at the root.
RootKeysFrom(i) == UNION {RootKeys(sourceObjects[j].data) : j \in i..Len(sourceObjects)}

\* After the pass of a scalar or a sequence the merged value is a clone of
\* that document.
ReplacedByLastSource ==
  isReplacement(sourceObjects[Len(sourceObjects)].data) =>
    /\ isEqual(finalMergedData, sourceObjects[Len(sourceObjects)].data)
    /\ finalMergedData.t = "array" => finalMergedData.ref = "own"

\* After that pass the value has no accessor and the engine holds no per-key
\* provenance for it.
NoProvenanceAfterReplacement ==
  isReplacement(sourceObjects[Len(sourceObjects)].data) =>
    /\ finalMergedData.t # "object"
    /\ DOMAIN metadata = {}

\* After a replacement followed by mappings, the merged value is a mapping
\* built from the later sources alone: no name that only the sources before
\* the replacement hold is present, and the root accessor answers for none.
RestartsAfterReplacement ==
  (/\ LastReplacement \in 1..(Len(sourceObjects) - 1)
   /\ \E j \in (LastReplacement + 1)..Len(sourceObjects) : sourceObjects[j].data.t = "object")
  => /\ finalMergedData.t = "object"
     /\ \A k \in RootKeysFrom(1) \ RootKeysFrom(LastReplacement + 1) :
          /\ ~hasOwnProperty(finalMergedData, k)
          /\ getMetadata(finalMergedData, k) = {}

ReplacementValue(data) ==
  IF isArray(data) /\ isArray(finalMergedData) /\ arrayStrategyOf(options) = "concat"
  THEN Arr(finalMergedData.v \o data.v, "own")
  ELSE data

C27_WitnessScalar ==
  /\ Len(sourceObjects) = 2
  /\ sourceObjects[1].data = docA1
  /\ sourceObjects[2].data = Num(7)
  /\ finalMergedData = Num(7)

\* [1], then [1] under concat: the merged value is [1, 1].
C27_WitnessConcat ==
  /\ Len(sourceObjects) = 2
  /\ arrayStrategyOf(options) = "concat"
  /\ sourceObjects[1].data = srcArr(<<Num(1)>>)
  /\ sourceObjects[2].data = srcArr(<<Num(1)>>)
  /\ finalMergedData = Arr(<<Num(1), Num(1)>>, "own")

\* ------------------------------------------------ C28
\* The visits additionalProperties and patternProperties of a visited node
\* call for: the additionalProperties sub-schema, then every
\* patternProperties sub-schema, at the path of the node, without a
\* propertyName.
ExpectedAdditionalVisits(v) ==
  LET subs == SelectSeq(SubSchemasOf(v.schemaNode, kAdditionalProperties)
                          \o SubSchemasOf(v.schemaNode, kPatternProperties),
                        typeofObject)
  IN [i \in 1..Len(subs) |->
        [schemaNode |-> subs[i], path |-> v.path, propertyName |-> Undefined,
         parentSchemaNode |-> v.schemaNode, depth |-> v.depth + 1]]

\* C28: in traverseSchema the additionalProperties sub-schema (a mapping) and
\* every patternProperties sub-schema are visited at the path of their owner
\* with no propertyName, each exactly once per visit of the owner, also when
\* the owner declares both keywords.
C28_AdditionalPatternOnce ==
  Returned("traverseSchema") =>
    \A j \in 1..Len(ret.visits) :
      LET v == ret.visits[j]
          children == ChildrenOf(ret.visits, j)
          skip == Len(SelectSeq(NamedSubSchemas(v.schemaNode), typeofObject))
      IN isMapping(v.schemaNode) =>
           [k \in 1..(Len(children) - skip) |-> ret.visits[children[skip + k]]]
             = ExpectedAdditionalVisits(v)

\* ------------------------------------------------ C29
\* The value holds the absence sentinel nowhere.
RECURSIVE NoSentinel(_)
NoSentinel(x) ==
  CASE x.t = "undefined" -> FALSE
    [] x.t = "object" -> \A i \in 1..Len(x.v) : NoSentinel(x.v[i][2])
    [] x.t = "array" -> \A i \in 1..Len(x.v) : NoSentinel(x.v[i])
    [] OTHER -> TRUE

\* The list of the sources' data.
DataOf(sources) == [i \in 1..Len(sources) |-> sources[i].data]

\* C29: for every list of sources whose data hold no absence sentinel, under
\* both array strategies, the merged value mergeAllWithMetadata returns
\* deep-equals mergeAll of the list of the sources' data.
C29_SameValueAsBaseline ==
  (Done /\ \A i \in 1..Len(sourceObjects) : NoSentinel(sourceObjects[i].data)) =>
    isEqual(finalMergedData, mergeAll(DataOf(sourceObjects), options))

\* {a:{b:1}}, {a:{c:2}}, {x:2, a:{b:{c:3}}} have been merged and the result
\* returned: a.c of the second source is kept, x is 2.
C29_Witness ==
  /\ Done
  /\ Len(sourceObjects) = 3
  /\ sourceObjects[1].data = docAB1
  /\ sourceObjects[2].data = docAC2
  /\ sourceObjects[3].data = docDeep
  /\ isEqual(finalMergedData, mergeAll(DataOf(sourceObjects), options))
  /\ isEqual(Get(Get(finalMergedData, ka), kc), Num(2))
  /\ isEqual(Get(finalMergedData, kx), Num(2))

\* Sequences under concat: {a:[1]} twice gives a = [1, 1] in both.
C29_WitnessConcat ==
  /\ Done
  /\ arrayStrategyOf(options) = "concat"
  /\ Len(sourceObjects) = 2
  /\ sourceObjects[1].data = docSeq1 /\ sourceObjects[2].data = docSeq1
  /\ isEqual(Get(finalMergedData, ka), Arr(<<Num(1), Num(1)>>, "own"))
  /\ isEqual(finalMergedData, mergeAll(DataOf(sourceObjects), options))

\* ------------------------------------------------ C30
\* The path, one property name per segment, leads to a key that is present.
RECURSIVE PathExists(_, _)
PathExists(x, path) ==
  /\ path # <<>>
  /\ x.t = "object"
  /\ hasOwnProperty(x, <<Head(path)>>)
  /\ Tail(path) # <<>> => PathExists(Get(x, <<Head(path)>>), Tail(path))

\* C30: every annotation enrichSchema writes at a path p is for a path that
\* exists in the returned merged value, and its inheritedValue deep-equals
\* the merged value at p, whatever the input objects and the schema are.
C30_AnnotationsAgree ==
  Returned("enrichSchema") =>
    \A p \in AnnotatedPaths :
      /\ PathExists(ret.mergedJson, p)
      /\ isEqual(ret.schemaUI[p].widget.inheritedValue, NodeAt(ret.mergedJson, p))

====
